---------------------------- MODULE Spec2Model ----------------------------
(***************************************************************************)
(* Model of the kernel log ring buffer of the klog character device        *)
(* (klog_write, klog_read, klog_proc_show and the rw_semaphore klog_rwsem  *)
(* that guards klog_buffer, buffer_head and buffer_available).             *)
(*                                                                         *)
(* klog_buffer is a sequence of Capacity bytes; C index i is element i+1.  *)
(* Every handler is split at the places where another thread could run:    *)
(* the semaphore operations and each copy to or from user memory.          *)
(***************************************************************************)
EXTENDS Integers, Sequences, FiniteSets, TLC

\* buffer_size, the module parameter (1 MiB by default), scaled down.
Capacity == 3

\* errno values returned negated by the handlers.
EFAULT == 14

ENOMEM == 12

\* The NUL byte: what memset fills the buffer with and what ends a C string.
NUL == 0

\* The byte values of the model: NUL and one other value.
Bytes == {NUL, 1}

\* Longest user buffer handed to a call: one byte more than the ring holds.
MaxLen == Capacity + 1

\* The threads, and in the concurrent specification what each of them calls:
\* write on /dev/klogbuf, read on /dev/klogbuf, a read of /proc/klogbuf.
Threads == {"t1", "t2", "t3"}

WriterThreads == {"t1", "t2"}

ReaderThreads == {"t1"}

ProcThreads == {"t3"}

\* The thread that issues the calls of the sequential specification.
Caller == "t1"

VARIABLES
    klog_buffer,        \* the ring storage, Capacity bytes
    buffer_head,        \* next write position
    buffer_available,   \* number of valid bytes
    klog_rwsem,         \* [readers |-> number of shared holders, writer |-> held exclusively]
    pc,                 \* position of every thread inside its handler
    call,               \* arguments and locals of the call every thread is in
    serial,             \* history variable: the store after the writes that have taken effect, each run whole, one by one
    history,            \* history variable: last Capacity bytes handed to successful appends
    total,              \* history variable: bytes handed to successful appends, saturating at Capacity + 1
    accepted,           \* history variable: bytes accepted by successful appends, [mod |-> their number modulo Capacity, sat |-> their number saturating at Capacity]
    rwsem_wait,         \* the waiters of klog_rwsem: [list |-> the threads queued, first come first, handoff |-> the semaphore is reserved for the first of them]
    voting_data,        \* the shared memory segment of a voting program (struct VotingData, and OS_Project's readcount behind it)
    wrt,                \* value of the named semaphore wrt
    read_count_sem,     \* value of the named semaphore read_count_sem (readcnt_mutex in OS_Project.c)
    proc,               \* the workers of a voting program: position, arguments, loop counter, values read and console state of each; main of OS_Project.c with its counters
    ballots,            \* history variable: [tally |-> how many votes every voter ID has added to votes[]]
    module              \* klog_init: [pc |-> where it is, ret |-> what it returned, live |-> the resources held, got |-> those it has acquired, freed |-> how often each was released]

vars == <<klog_buffer, buffer_head, buffer_available, klog_rwsem, pc, call,
          serial, history, total, accepted, rwsem_wait, module,
          voting_data, wrt, read_count_sem, proc, ballots>>

\* The variables the handlers of the device work on.
klogvars == <<klog_buffer, buffer_head, buffer_available, klog_rwsem, pc, call,
              serial, history, total, accepted>>

\* The variables the handlers of the device leave alone.
notklog == <<rwsem_wait, module, voting_data, wrt, read_count_sem, proc, ballots>>

\* The variables of the voting programs.
votevars == <<voting_data, wrt, read_count_sem, proc, ballots>>

store == <<klog_buffer, buffer_head, buffer_available>>

ghosts == <<serial, history, total, accepted>>

Min(a, b) == IF a < b THEN a ELSE b

Max(a, b) == IF a > b THEN a ELSE b

\* All sequences over S of length at most n.
SeqsUpTo(S, n) == UNION {[1..k -> S] : k \in 0..n}

\* The last n elements of s (all of s when it is shorter).
LastN(s, n) == IF Len(s) <= n THEN s ELSE SubSeq(s, Len(s) - n + 1, Len(s))

Zeroes == [i \in 1..Capacity |-> NUL]

\* The store as one value.
Store(buf, head, avail) == [buf |-> buf, head |-> head, avail |-> avail]

FreshStore == Store(Zeroes, 0, 0)

CurStore == Store(klog_buffer, buffer_head, buffer_available)

-----------------------------------------------------------------------------
(* The arithmetic and the copies of the handlers, as operators.            *)

\* BytesToWrite without the clamp to the buffer size.
BytesToWriteUnclamped(len) == len

\* bytes_to_write = min(len, (size_t)buffer_size)
BytesToWrite(len) == Min(len, Capacity)

\* WriteWraps that never sees the end of the buffer: the write is one copy.
WriteNeverWraps(head, n) == FALSE

\* if (buffer_head + bytes_to_write > buffer_size)
WriteWraps(head, n) == head + n > Capacity

\* copy_from_user(klog_buffer + to, buffer + from, n).  u holds the readable
\* bytes of the user buffer (the memory after them is not mapped): the readable
\* bytes are copied, the rest of the destination is zeroed, and the number of
\* bytes not copied is returned.
CopyFromUser(buf, to, u, from, n) ==
    LET ok == Min(n, Max(Len(u) - from, 0))
    IN  [buf  |-> [i \in 1..Capacity |->
                     IF i - 1 >= to /\ i - 1 < to + ok THEN u[from + (i - 1 - to) + 1]
                     ELSE IF i - 1 >= to + ok /\ i - 1 < to + n THEN NUL
                     ELSE buf[i]],
         left |-> n - ok]

\* AdvanceHead that goes back to the start of the buffer whenever it reaches
\* or passes its end.
AdvanceHeadResetOnWrap(head, n) == IF head + n >= Capacity THEN 0 ELSE head + n

\* AdvanceHead without the modulo.
AdvanceHeadNoWrap(head, n) == head + n

\* buffer_head = (buffer_head + bytes_to_write) % buffer_size
AdvanceHead(head, n) == (head + n) % Capacity

\* GrowAvailable that wraps around at the buffer size instead of saturating.
GrowAvailableWrapped(avail, n) == (avail + n) % (Capacity + 1)

\* GrowAvailable without the clamp to the buffer size.
GrowAvailableUnclamped(avail, n) == avail + n

\* buffer_available = min(buffer_available + bytes_to_write, (size_t)buffer_size)
GrowAvailable(avail, n) == Min(avail + n, Capacity)

\* bytes_to_read = min(len, buffer_available)
BytesToRead(len, avail) == Min(len, avail)

\* read_pos = (buffer_head + buffer_size - buffer_available + *offset) % buffer_size
ReadPos(head, avail, off) == (head + Capacity - avail + off) % Capacity

\* copy_to_user(buffer + at, klog_buffer + from, n) into a user buffer whose first
\* `valid` bytes are writable; out is what the user buffer holds so far (bytes
\* 0..at-1).  Returns the new contents and the number of bytes not copied.
CopyToUser(out, at, buf, from, n, valid) ==
    LET ok == Min(n, Max(valid - at, 0))
    IN  [out  |-> out \o [i \in 1..ok |-> buf[from + i]],
         left |-> n - ok]

\* ShowTemp without the reassembly: the first avail cells of the storage.
ShowTempUnrotated(buf, head, avail) == [i \in 1..avail |-> buf[i]] \o <<NUL>>

\* The temporary buffer klog_proc_show fills: the window, then a NUL.
ShowTemp(buf, head, avail) ==
    IF head >= avail
    THEN [i \in 1..avail |-> buf[(head - avail) + i]] \o <<NUL>>
    ELSE LET first_part == Capacity - (avail - head)
         IN  [i \in 1..(avail - head) |-> buf[first_part + i]]
             \o [i \in 1..head |-> buf[i]]
             \o <<NUL>>

\* seq_printf(m, "%s", temp_buffer): the bytes before the first NUL.
RECURSIVE PrintfS(_)
PrintfS(s) == IF s = <<>> \/ Head(s) = NUL THEN <<>> ELSE <<Head(s)>> \o PrintfS(Tail(s))


-----------------------------------------------------------------------------
(* The handlers run atomically on a store value: what one call does when   *)
(* nothing else runs between its down_* and its up_*.                      *)

\* klog_write(buffer, len) on store st, u the readable bytes of buffer.
KlogWrite(st, u, len) ==
    LET n     == BytesToWrite(len)
        wraps == WriteWraps(st.head, n)
        first == IF wraps THEN Capacity - st.head ELSE n
        c1    == CopyFromUser(st.buf, st.head, u, 0, first)
        c2    == CopyFromUser(c1.buf, 0, u, first, n - first)
    IN  IF c1.left # 0 THEN Store(c1.buf, st.head, st.avail)
        ELSE IF wraps /\ c2.left # 0 THEN Store(c2.buf, st.head, st.avail)
        ELSE Store(IF wraps THEN c2.buf ELSE c1.buf,
                   AdvanceHead(st.head, n), GrowAvailable(st.avail, n))

\* klog_read on store st: the bytes left in the user buffer and the return value.
KlogRead(st, len, off, valid) ==
    LET n     == BytesToRead(len, st.avail)
        pos   == ReadPos(st.head, st.avail, off)
        wraps == pos + n > Capacity
        first == IF wraps THEN Capacity - pos ELSE n
        c1    == CopyToUser(<<>>, 0, st.buf, pos, first, valid)
        c2    == CopyToUser(c1.out, first, st.buf, 0, n - first, valid)
    IN  IF st.avail = 0 \/ ~(off < st.avail) THEN [out |-> <<>>, ret |-> 0]
        ELSE IF c1.left # 0 THEN [out |-> c1.out, ret |-> -EFAULT]
        ELSE IF ~wraps THEN [out |-> c1.out, ret |-> n]
        ELSE IF c2.left # 0 THEN [out |-> c2.out, ret |-> -EFAULT]
        ELSE [out |-> c2.out, ret |-> n]

\* klog_proc_show on store st when the allocation succeeds: the text printed.
KlogProcShow(st) == PrintfS(ShowTemp(st.buf, st.head, st.avail))

-----------------------------------------------------------------------------
(* The rw_semaphore.                                                       *)

\* CanRead that also waits for the other readers, as a mutex would.
CanReadAlone(sem) == ~sem.writer /\ sem.readers = 0

\* CanRead without its test: a reader is admitted past a writer.
CanReadPastWriter(sem) == TRUE

\* down_read returns once no writer holds the semaphore.
CanRead(sem) == ~sem.writer

\* CanWrite without its test: a writer is admitted whatever the holders.
CanWriteAlways(sem) == TRUE

\* CanWrite that forgets the readers: a writer is admitted while readers hold.
CanWriteIgnoringReaders(sem) == ~sem.writer

\* down_write returns once nobody holds the semaphore.
CanWrite(sem) == ~sem.writer /\ sem.readers = 0

\* The wait queue of a semaphore nobody waits for.
NoWaiters == [list |-> <<>>, handoff |-> FALSE]

\* HandoffBars without the handoff: a newcomer may always overtake the waiters.
HandoffIgnored(w) == FALSE

\* Once the first waiter has waited long enough the semaphore is handed to it:
\* no newcomer takes the semaphore before the waiters.
HandoffBars(w) == w.handoff

-----------------------------------------------------------------------------
(* State.                                                                  *)

\* No earlier read to compare with.
NoPrev == [set |-> FALSE, out |-> <<>>, ret |-> 0]

\* Arguments and locals of a call, and what is remembered about it: acq and rel
\* count its down_* and up_* operations, h0, a0, s0 and s1 are the store at its
\* down_* and up_*, prev is the result of the read it repeats, seq tells that
\* it continues a descriptor's run of reads and acc holds the bytes the earlier
\* reads of that run returned.
\* What klog_init acquires: the buffer, the major number of the character
\* device, the device class, the device and the proc entry.
Resources == {"klog_buffer", "chrdev", "klog_class", "klog_device", "klog_proc_entry"}

\* The module once klog_init has returned 0.
Loaded == [pc |-> "loaded", ret |-> 0, live |-> Resources, got |-> Resources,
           freed |-> [r \in Resources |-> 0]]

\* The module before klog_init runs.
Unloaded == [pc |-> "alloc", ret |-> 0, live |-> {}, got |-> {},
             freed |-> [r \in Resources |-> 0]]

IdleCall ==
    [op |-> "none", ubuf |-> <<>>, uvalid |-> 0, len |-> 0, off |-> 0, off0 |-> 0,
     n |-> 0, pos |-> 0, temp |-> <<>>, out |-> <<>>, ret |-> 0,
     h0 |-> 0, a0 |-> 0, s0 |-> FreshStore, s1 |-> FreshStore,
     acq |-> 0, rel |-> 0, prev |-> NoPrev, seq |-> FALSE, acc |-> <<>>]

\* No voting program runs beside the device: no segment, no worker, the
\* semaphores as sem_open creates them.
NoVoting ==
    /\ voting_data = <<>>
    /\ wrt = 1
    /\ read_count_sem = 1
    /\ proc = <<>>
    /\ ballots = <<>>

\* Init with a store that claims to hold one byte.
InitOneAvailable ==
    /\ klog_buffer = Zeroes
    /\ buffer_head = 0
    /\ buffer_available = 1
    /\ klog_rwsem = [readers |-> 0, writer |-> FALSE]
    /\ pc = [t \in Threads |-> "idle"]
    /\ call = [t \in Threads |-> IdleCall]
    /\ serial = FreshStore
    /\ history = <<>>
    /\ total = 0
    /\ accepted = [mod |-> 0, sat |-> 0]
    /\ rwsem_wait = NoWaiters
    /\ module = Loaded
    /\ NoVoting

\* The state once klog_init has returned 0.
Init ==
    /\ klog_buffer = Zeroes
    /\ buffer_head = 0
    /\ buffer_available = 0
    /\ klog_rwsem = [readers |-> 0, writer |-> FALSE]
    /\ pc = [t \in Threads |-> "idle"]
    /\ call = [t \in Threads |-> IdleCall]
    /\ serial = FreshStore
    /\ history = <<>>
    /\ total = 0
    /\ accepted = [mod |-> 0, sat |-> 0]
    /\ rwsem_wait = NoWaiters
    /\ module = Loaded
    /\ NoVoting

Goto(t, label) == pc' = [pc EXCEPT ![t] = label]

-----------------------------------------------------------------------------
(* A thread enters a handler (the system call).                            *)

\* write(fd, buffer, len) on /dev/klogbuf; u holds the readable bytes of buffer.
StartWrite(t, u, len) ==
    /\ pc[t] = "idle"
    /\ call' = [call EXCEPT ![t] = [IdleCall EXCEPT !.op = "write", !.ubuf = u,
                                       !.uvalid = Len(u), !.len = len]]
    /\ Goto(t, "w_down")
    /\ UNCHANGED <<store, klog_rwsem, ghosts>>

\* read(fd, buffer, len) with the file position at off.
StartRead(t, len, off, valid) ==
    /\ pc[t] = "idle"
    /\ call' = [call EXCEPT ![t] = [IdleCall EXCEPT !.op = "read", !.uvalid = valid,
                                       !.len = len, !.off = off, !.off0 = off]]
    /\ Goto(t, "r_down")
    /\ UNCHANGED <<store, klog_rwsem, ghosts>>

\* A read of /proc/klogbuf.
StartShow(t) ==
    /\ pc[t] = "idle"
    /\ call' = [call EXCEPT ![t] = [IdleCall EXCEPT !.op = "show"]]
    /\ Goto(t, "d_down")
    /\ UNCHANGED <<store, klog_rwsem, ghosts>>

\* The read that has just returned is issued again with the same length at the
\* same file position (a pread); its result is kept for comparison.
ReadAgain(t) ==
    /\ pc[t] = "done"
    /\ call[t].op = "read"
    /\ call' = [call EXCEPT ![t] =
                   [IdleCall EXCEPT !.op = "read", !.uvalid = call[t].uvalid,
                                    !.len = call[t].len,
                                    !.off = call[t].off0, !.off0 = call[t].off0,
                                    !.prev = [set |-> TRUE, out |-> call[t].out,
                                              ret |-> call[t].ret]]]
    /\ Goto(t, "r_down")
    /\ UNCHANGED <<store, klog_rwsem, ghosts>>

\* The next read(fd, buffer, len) of a descriptor's loop: same length, at the
\* file position the read that has just returned left; the loop ends on an error.
ReadNext(t) ==
    /\ pc[t] = "done"
    /\ call[t].op = "read"
    /\ call[t].ret >= 0
    /\ call' = [call EXCEPT ![t] =
                   [IdleCall EXCEPT !.op = "read", !.uvalid = call[t].uvalid,
                                    !.len = call[t].len,
                                    !.off = call[t].off, !.off0 = call[t].off,
                                    !.seq = TRUE,
                                    !.acc = call[t].acc \o call[t].out]]
    /\ Goto(t, "r_down")
    /\ UNCHANGED <<store, klog_rwsem, ghosts>>

\* The handler has returned; the thread is free to call again.
Return(t) ==
    /\ pc[t] = "done"
    /\ call' = [call EXCEPT ![t] = IdleCall]
    /\ Goto(t, "idle")
    /\ UNCHANGED <<store, klog_rwsem, ghosts>>

-----------------------------------------------------------------------------
(* klog_write.                                                             *)

\* DownWrite without the semaphore: the write goes on without taking it.
DownWriteNoLock(t) ==
    /\ pc[t] = "w_down"
    /\ call' = [call EXCEPT ![t].n = BytesToWrite(call[t].len),
                            ![t].h0 = buffer_head, ![t].a0 = buffer_available,
                            ![t].s0 = CurStore]
    /\ Goto(t, "w_copy")
    /\ UNCHANGED <<store, klog_rwsem, ghosts>>

\* down_write(&klog_rwsem); bytes_to_write = min(len, buffer_size)
DownWrite(t) ==
    /\ pc[t] = "w_down"
    /\ CanWrite(klog_rwsem)
    /\ klog_rwsem' = [klog_rwsem EXCEPT !.writer = TRUE]
    /\ call' = [call EXCEPT ![t].n = BytesToWrite(call[t].len),
                            ![t].h0 = buffer_head, ![t].a0 = buffer_available,
                            ![t].s0 = CurStore, ![t].acq = @ + 1]
    /\ Goto(t, "w_copy")
    /\ UNCHANGED <<store, ghosts>>

\* The first (or only) copy_from_user: up to the end of the buffer when the
\* write wraps, all of it otherwise.
WriteCopy(t) ==
    /\ pc[t] = "w_copy"
    /\ LET c     == call[t]
           wraps == WriteWraps(buffer_head, c.n)
           first == IF wraps THEN Capacity - buffer_head ELSE c.n
           r     == CopyFromUser(klog_buffer, buffer_head, c.ubuf, 0, first)
       IN  /\ klog_buffer' = r.buf
           /\ IF r.left # 0
              THEN /\ call' = [call EXCEPT ![t].ret = -EFAULT]
                   /\ serial' = KlogWrite(serial, c.ubuf, c.len)
                   /\ Goto(t, "w_up")
              ELSE /\ UNCHANGED <<call, serial>>
                   /\ Goto(t, IF wraps THEN "w_copy2" ELSE "w_update")
    /\ UNCHANGED <<buffer_head, buffer_available, klog_rwsem, history, total, accepted>>

\* The second copy_from_user of a wrapped write, to the beginning of the buffer.
WriteCopy2(t) ==
    /\ pc[t] = "w_copy2"
    /\ LET c  == call[t]
           contiguous_bytes == Capacity - buffer_head
           r  == CopyFromUser(klog_buffer, 0, c.ubuf, contiguous_bytes,
                              c.n - contiguous_bytes)
       IN  /\ klog_buffer' = r.buf
           /\ IF r.left # 0
              THEN /\ call' = [call EXCEPT ![t].ret = -EFAULT]
                   /\ serial' = KlogWrite(serial, c.ubuf, c.len)
                   /\ Goto(t, "w_up")
              ELSE /\ UNCHANGED <<call, serial>>
                   /\ Goto(t, "w_update")
    /\ UNCHANGED <<buffer_head, buffer_available, klog_rwsem, history, total, accepted>>

\* Update buffer state: buffer_head and buffer_available.
WriteUpdate(t) ==
    /\ pc[t] = "w_update"
    /\ buffer_head' = AdvanceHead(buffer_head, call[t].n)
    /\ buffer_available' = GrowAvailable(buffer_available, call[t].n)
    /\ call' = [call EXCEPT ![t].ret = call[t].n]
    /\ history' = LastN(history \o call[t].ubuf, Capacity)
    /\ total' = Min(total + call[t].len, Capacity + 1)
    /\ accepted' = [mod |-> (accepted.mod + call[t].n) % Capacity,
                    sat |-> Min(accepted.sat + call[t].n, Capacity)]
    /\ serial' = KlogWrite(serial, call[t].ubuf, call[t].len)
    /\ Goto(t, "w_up")
    /\ UNCHANGED <<klog_buffer, klog_rwsem>>

\* up_write(&klog_rwsem); on success *offset += bytes_to_write; return.
UpWrite(t) ==
    /\ pc[t] = "w_up"
    /\ klog_rwsem' = [klog_rwsem EXCEPT !.writer = FALSE]
    /\ call' = [call EXCEPT ![t].off = IF call[t].ret >= 0 THEN @ + call[t].n ELSE @,
                            ![t].s0 = FreshStore, ![t].rel = @ + 1]
    /\ Goto(t, "done")
    /\ UNCHANGED <<store, ghosts>>

-----------------------------------------------------------------------------
(* klog_read and klog_proc_show.                                           *)

\* down_read(&klog_rwsem), of klog_read and of klog_proc_show.
DownRead(t) ==
    /\ pc[t] \in {"r_down", "d_down"}
    /\ CanRead(klog_rwsem)
    /\ klog_rwsem' = [klog_rwsem EXCEPT !.readers = @ + 1]
    /\ call' = [call EXCEPT ![t].s0 = serial, ![t].acq = @ + 1]
    /\ Goto(t, IF pc[t] = "r_down" THEN "r_check" ELSE "d_copy")
    /\ UNCHANGED <<store, ghosts>>

\* ReadCheck whose offset test lets the offset equal to buffer_available through.
ReadCheckInclusive(t) ==
    /\ pc[t] = "r_check"
    /\ IF buffer_available = 0
       THEN /\ call' = [call EXCEPT ![t].ret = 0]
            /\ Goto(t, "r_up")
       ELSE IF call[t].off <= buffer_available
       THEN /\ call' = [call EXCEPT
                          ![t].n = BytesToRead(call[t].len, buffer_available),
                          ![t].pos = ReadPos(buffer_head, buffer_available, call[t].off)]
            /\ Goto(t, "r_copy")
       ELSE /\ call' = [call EXCEPT ![t].n = 0, ![t].ret = 0]
            /\ Goto(t, "r_up")
    /\ UNCHANGED <<store, klog_rwsem, ghosts>>

\* The EOF test, bytes_to_read, the offset test and read_pos.
ReadCheck(t) ==
    /\ pc[t] = "r_check"
    /\ IF buffer_available = 0
       THEN /\ call' = [call EXCEPT ![t].ret = 0]
            /\ Goto(t, "r_up")
       ELSE IF call[t].off < buffer_available
       THEN /\ call' = [call EXCEPT
                          ![t].n = BytesToRead(call[t].len, buffer_available),
                          ![t].pos = ReadPos(buffer_head, buffer_available, call[t].off)]
            /\ Goto(t, "r_copy")
       ELSE /\ call' = [call EXCEPT ![t].n = 0, ![t].ret = 0]
            /\ Goto(t, "r_up")
    /\ UNCHANGED <<store, klog_rwsem, ghosts>>

\* ReadCopy that consumes what it returns: the bytes read leave the window.
ReadCopyConsuming(t) ==
    /\ pc[t] = "r_copy"
    /\ LET c     == call[t]
           wraps == c.pos + c.n > Capacity
           first == IF wraps THEN Capacity - c.pos ELSE c.n
           r     == CopyToUser(c.out, 0, klog_buffer, c.pos, first, c.uvalid)
       IN  IF r.left # 0
           THEN /\ call' = [call EXCEPT ![t].out = r.out, ![t].ret = -EFAULT]
                /\ Goto(t, "r_up")
                /\ UNCHANGED buffer_available
           ELSE IF wraps
           THEN /\ call' = [call EXCEPT ![t].out = r.out]
                /\ Goto(t, "r_copy2")
                /\ UNCHANGED buffer_available
           ELSE /\ call' = [call EXCEPT ![t].out = r.out, ![t].off = @ + c.n,
                                        ![t].ret = c.n]
                /\ Goto(t, "r_up")
                /\ buffer_available' = Max(buffer_available - c.n, 0)
    /\ UNCHANGED <<klog_buffer, buffer_head, klog_rwsem, ghosts>>

\* ReadCopy that moves the offset before it looks at the result of the copy.
ReadCopyAdvancesFirst(t) ==
    /\ pc[t] = "r_copy"
    /\ LET c     == call[t]
           wraps == c.pos + c.n > Capacity
           first == IF wraps THEN Capacity - c.pos ELSE c.n
           r     == CopyToUser(c.out, 0, klog_buffer, c.pos, first, c.uvalid)
       IN  IF r.left # 0
           THEN /\ call' = [call EXCEPT ![t].out = r.out, ![t].off = @ + c.n,
                                        ![t].ret = -EFAULT]
                /\ Goto(t, "r_up")
           ELSE IF wraps
           THEN /\ call' = [call EXCEPT ![t].out = r.out]
                /\ Goto(t, "r_copy2")
           ELSE /\ call' = [call EXCEPT ![t].out = r.out, ![t].off = @ + c.n,
                                        ![t].ret = c.n]
                /\ Goto(t, "r_up")
    /\ UNCHANGED <<store, klog_rwsem, ghosts>>

\* The first (or only) copy_to_user; when it is the only one, *offset += bytes_to_read.
ReadCopy(t) ==
    /\ pc[t] = "r_copy"
    /\ LET c     == call[t]
           wraps == c.pos + c.n > Capacity
           first == IF wraps THEN Capacity - c.pos ELSE c.n
           r     == CopyToUser(c.out, 0, klog_buffer, c.pos, first, c.uvalid)
       IN  IF r.left # 0
           THEN /\ call' = [call EXCEPT ![t].out = r.out, ![t].ret = -EFAULT]
                /\ Goto(t, "r_up")
           ELSE IF wraps
           THEN /\ call' = [call EXCEPT ![t].out = r.out]
                /\ Goto(t, "r_copy2")
           ELSE /\ call' = [call EXCEPT ![t].out = r.out, ![t].off = @ + c.n,
                                        ![t].ret = c.n]
                /\ Goto(t, "r_up")
    /\ UNCHANGED <<store, klog_rwsem, ghosts>>

\* The second copy_to_user of a wrapped read; then *offset += bytes_to_read.
ReadCopy2(t) ==
    /\ pc[t] = "r_copy2"
    /\ LET c  == call[t]
           contiguous_bytes == Capacity - c.pos
           r  == CopyToUser(c.out, contiguous_bytes, klog_buffer, 0,
                            c.n - contiguous_bytes, c.uvalid)
       IN  IF r.left # 0
           THEN /\ call' = [call EXCEPT ![t].out = r.out, ![t].ret = -EFAULT]
                /\ Goto(t, "r_up")
           ELSE /\ call' = [call EXCEPT ![t].out = r.out, ![t].off = @ + c.n,
                                        ![t].ret = c.n]
                /\ Goto(t, "r_up")
    /\ UNCHANGED <<store, klog_rwsem, ghosts>>

\* ShowCopy that empties the window once it has copied it.
ShowCopyClearing(t) ==
    /\ pc[t] = "d_copy"
    /\ \E allocated \in BOOLEAN :
          /\ call' = [call EXCEPT
                        ![t].temp = IF allocated
                                    THEN ShowTemp(klog_buffer, buffer_head, buffer_available)
                                    ELSE @,
                        ![t].ret = IF allocated THEN 0 ELSE -ENOMEM]
          /\ buffer_available' = IF allocated THEN 0 ELSE buffer_available
    /\ Goto(t, "d_up")
    /\ UNCHANGED <<klog_buffer, buffer_head, klog_rwsem, ghosts>>

\* kmalloc of the temporary buffer (it may fail), the memcpy of the window into
\* it and its NUL terminator.
ShowCopy(t) ==
    /\ pc[t] = "d_copy"
    /\ \E allocated \in BOOLEAN :
          call' = [call EXCEPT
                     ![t].temp = IF allocated
                                 THEN ShowTemp(klog_buffer, buffer_head, buffer_available)
                                 ELSE @,
                     ![t].ret = IF allocated THEN 0 ELSE -ENOMEM]
    /\ Goto(t, "d_up")
    /\ UNCHANGED <<store, klog_rwsem, ghosts>>

\* UpRead that forgets the semaphore on the error paths.
UpReadNotOnError(t) ==
    /\ pc[t] \in {"r_up", "d_up"}
    /\ klog_rwsem' = IF call[t].ret < 0 THEN klog_rwsem
                     ELSE [klog_rwsem EXCEPT !.readers = @ - 1]
    /\ call' = [call EXCEPT ![t].s1 = serial,
                            ![t].rel = IF call[t].ret < 0 THEN @ ELSE @ + 1]
    /\ Goto(t, IF pc[t] = "d_up" /\ call[t].ret = 0 THEN "d_print" ELSE "done")
    /\ UNCHANGED <<store, ghosts>>

\* up_read(&klog_rwsem), of klog_read (which then returns) and of klog_proc_show
\* (which returns -ENOMEM or goes on to print).
UpRead(t) ==
    /\ pc[t] \in {"r_up", "d_up"}
    /\ klog_rwsem' = [klog_rwsem EXCEPT !.readers = @ - 1]
    /\ call' = [call EXCEPT ![t].s1 = serial, ![t].rel = @ + 1]
    /\ Goto(t, IF pc[t] = "d_up" /\ call[t].ret = 0 THEN "d_print" ELSE "done")
    /\ UNCHANGED <<store, ghosts>>

\* seq_printf(m, "%s", temp_buffer); kfree(temp_buffer); return 0.
ShowPrint(t) ==
    /\ pc[t] = "d_print"
    /\ call' = [call EXCEPT ![t].out = PrintfS(call[t].temp), ![t].temp = <<>>]
    /\ Goto(t, "done")
    /\ UNCHANGED <<store, klog_rwsem, ghosts>>

\* One step of thread t inside a handler, other than down_read and down_write.
Inside(t) ==
    \/ WriteCopy(t)
    \/ WriteCopy2(t)
    \/ WriteUpdate(t)
    \/ UpWrite(t)
    \/ ReadCheck(t)
    \/ ReadCopy(t)
    \/ ReadCopy2(t)
    \/ ShowCopy(t)
    \/ UpRead(t)
    \/ ShowPrint(t)
    \/ Return(t)

\* One step of thread t inside a handler.
Step(t) ==
    \/ DownWrite(t)
    \/ WriteCopy(t)
    \/ WriteCopy2(t)
    \/ WriteUpdate(t)
    \/ UpWrite(t)
    \/ DownRead(t)
    \/ ReadCheck(t)
    \/ ReadCopy(t)
    \/ ReadCopy2(t)
    \/ ShowCopy(t)
    \/ UpRead(t)
    \/ ShowPrint(t)
    \/ Return(t)

-----------------------------------------------------------------------------
(* Spec: one caller issuing calls one after another, with every user       *)
(* buffer up to MaxLen bytes, wholly accessible or faulting.                 *)

\* The accessible extents tried for a user buffer of len bytes: all of it, or
\* its first byte only (the copy faults at the second byte).
Extents(len) == {len, Min(len, 1)}

SeqCall ==
    \/ \E len \in 0..MaxLen : \E valid \in Extents(len) : \E u \in [1..valid -> Bytes] :
          StartWrite(Caller, u, len)
    \/ \E len \in 0..MaxLen, off \in 0..MaxLen : \E valid \in Extents(len) :
          StartRead(Caller, len, off, valid)
    \/ StartShow(Caller)

Next == (SeqCall \/ Step(Caller)) /\ UNCHANGED notklog

Spec == Init /\ [][Next]_vars

-----------------------------------------------------------------------------
(* ConcSpec: the threads issue calls concurrently, again and again, with a  *)
(* few inputs.                                                             *)

\* User buffers of the concurrent writers.
ConcWrites == {[u |-> <<1>>, len |-> 1], [u |-> <<0, 1>>, len |-> 2]}

\* (len, off) of the concurrent readers.
ConcReads == {<<MaxLen, 1>>}

ConcCall(t) ==
    \/ \E w \in ConcWrites : t \in WriterThreads /\ StartWrite(t, w.u, w.len)
    \/ \E r \in ConcReads : t \in ReaderThreads /\ StartRead(t, r[1], r[2], r[1])
    \/ t \in ProcThreads /\ StartShow(t)

ConcNext == (\E t \in Threads : ConcCall(t) \/ Step(t)) /\ UNCHANGED notklog

ConcSpec == Init /\ [][ConcNext]_vars

-----------------------------------------------------------------------------
(* FileSpec: the caller of Spec, which may also repeat the read it has     *)
(* just made or go on reading where it left the file position.             *)

FileNext ==
    (SeqCall \/ Step(Caller) \/ ReadAgain(Caller) \/ ReadNext(Caller))
        /\ UNCHANGED notklog

FileSpec == Init /\ [][FileNext]_vars

-----------------------------------------------------------------------------
(* ScenSpec: the scenario that fills the store with the first letters of   *)
(* the alphabet, one per byte of capacity, then appends QR (and further    *)
(* letters), reading and dumping in between.                               *)

\* The bytes A, B, C, ... : as many as the store holds.
Alphabet == [i \in 1..Capacity |-> 64 + i]

\* The bytes Q, R.
QR == <<81, 82>>

\* What is appended after the alphabet: QR, or the single byte S.
ScenAppends == {QR, <<83>>}

\* What the window holds once QR has followed the alphabet.
AfterQR == SubSeq(Alphabet, 3, Capacity) \o QR

ScenCall ==
    \/ total = 0 /\ StartWrite(Caller, Alphabet, Capacity)
    \/ total >= Capacity /\ \E u \in ScenAppends : StartWrite(Caller, u, Len(u))
    \/ \E len \in 0..MaxLen, off \in {0, Capacity} : StartRead(Caller, len, off, len)
    \/ StartShow(Caller)

ScenNext == (ScenCall \/ Step(Caller)) /\ UNCHANGED notklog

ScenSpec == Init /\ [][ScenNext]_vars

-----------------------------------------------------------------------------
(* FairSpec: the threads of ConcSpec with the wait queue of the semaphore.  *)
(* A thread that calls down_read or down_write takes the semaphore at once  *)
(* when it is available and not reserved, overtaking the waiters, or joins  *)
(* the queue; the first waiter reserves the semaphore when it has waited    *)
(* long enough, and the waiters are served in order.                        *)

\* The threads in the wait queue.
Waiting == {rwsem_wait.list[i] : i \in 1..Len(rwsem_wait.list)}

\* The wait queue without thread t.
Unqueue(t) == SelectSeq(rwsem_wait.list, LAMBDA x : x # t)

\* down_read or down_write succeeds at once.
TakeAtOnce(t) ==
    /\ t \notin Waiting
    /\ ~HandoffBars(rwsem_wait)
    /\ DownRead(t) \/ DownWrite(t)
    /\ UNCHANGED notklog

\* down_read or down_write joins the wait queue.
JoinQueue(t) ==
    /\ pc[t] \in {"r_down", "d_down", "w_down"}
    /\ t \notin Waiting
    /\ rwsem_wait.list # <<>> \/ HandoffBars(rwsem_wait) \/ klog_rwsem.writer
          \/ (pc[t] = "w_down" /\ klog_rwsem.readers > 0)
    /\ rwsem_wait' = [rwsem_wait EXCEPT !.list = Append(@, t)]
    /\ UNCHANGED <<klogvars, module, votevars>>

\* The first waiter has waited long enough: the semaphore is reserved for it.
SetHandoff ==
    /\ rwsem_wait.list # <<>>
    /\ ~rwsem_wait.handoff
    /\ rwsem_wait' = [rwsem_wait EXCEPT !.handoff = TRUE]
    /\ UNCHANGED <<klogvars, module, votevars>>

\* A waiting writer is given the semaphore: it is the first waiter.
WakeWriter(t) ==
    /\ rwsem_wait.list # <<>> /\ t = Head(rwsem_wait.list)
    /\ DownWrite(t)
    /\ rwsem_wait' = [list |-> Tail(rwsem_wait.list), handoff |-> FALSE]
    /\ UNCHANGED <<module, votevars>>

\* A waiting reader is given the semaphore: the first waiter is a reader, and
\* the readers behind it are woken with it.
WakeReader(t) ==
    /\ t \in Waiting
    /\ pc[Head(rwsem_wait.list)] \in {"r_down", "d_down"}
    /\ DownRead(t)
    /\ rwsem_wait' = [list |-> Unqueue(t),
                      handoff |-> IF t = Head(rwsem_wait.list) THEN FALSE
                                  ELSE rwsem_wait.handoff]
    /\ UNCHANGED <<module, votevars>>

\* User buffers of the writers, and (len, off) of the readers, of FairSpec.
FairWrites == {[u |-> <<1>>, len |-> 1]}

FairReads == {<<1, 0>>}

FairCall(t) ==
    \/ \E w \in FairWrites : t \in WriterThreads /\ StartWrite(t, w.u, w.len)
    \/ \E r \in FairReads : t \in ReaderThreads /\ StartRead(t, r[1], r[2], r[1])
    \/ t \in ProcThreads /\ StartShow(t)

\* What a thread does once it is in a handler.
FairStep(t) ==
    \/ TakeAtOnce(t)
    \/ JoinQueue(t)
    \/ WakeWriter(t)
    \/ WakeReader(t)
    \/ Inside(t) /\ UNCHANGED notklog

FairNext ==
    \/ \E t \in Threads : (FairCall(t) /\ UNCHANGED notklog) \/ FairStep(t)
    \/ SetHandoff

\* Every thread inside a handler goes on running, and time passes for the
\* first waiter; no thread is obliged to call a handler.
FairSpec ==
    /\ Init /\ [][FairNext]_vars
    /\ \A t \in Threads : WF_vars(FairStep(t))
    /\ WF_vars(SetHandoff)

-----------------------------------------------------------------------------
(* klog_init, and LifeSpec: the module is loaded, which may fail at every  *)
(* step, and once it is loaded the caller of Spec uses the device.         *)

\* What the kernel calls of klog_init other than the allocations return when
\* they fail: a negative errno.
InitErrors == {-ENOMEM, -EFAULT}

\* The module after the resources of the sequence rs are released, one by one.
Release(m, rs) ==
    [m EXCEPT !.live = @ \ {rs[i] : i \in 1..Len(rs)},
              !.freed = [r \in Resources |->
                           @[r] + Cardinality({i \in 1..Len(rs) : rs[i] = r})]]

\* klog_init has failed with err after releasing rs.
InitFails(err, rs) ==
    module' = [Release(module, rs) EXCEPT !.pc = "failed", !.ret = err]

\* klog_init has acquired resource r and goes on to the step next.
InitAcquires(r, next) ==
    module' = [module EXCEPT !.live = @ \cup {r}, !.got = @ \cup {r}, !.pc = next]

\* klog_buffer = kmalloc(buffer_size); memset(klog_buffer, 0, buffer_size);
\* init_rwsem(&klog_rwsem)
InitAlloc ==
    /\ module.pc = "alloc"
    /\ \/ /\ InitAcquires("klog_buffer", "chrdev")
          /\ klog_buffer' = Zeroes
          /\ klog_rwsem' = [readers |-> 0, writer |-> FALSE]
       \/ /\ InitFails(-ENOMEM, <<>>)
          /\ UNCHANGED <<klog_buffer, klog_rwsem>>
    /\ UNCHANGED <<buffer_head, buffer_available, pc, call, ghosts, rwsem_wait, votevars>>

\* major_number = register_chrdev(0, DEVICE_NAME, &klog_fops)
InitChrdev ==
    /\ module.pc = "chrdev"
    /\ \/ InitAcquires("chrdev", "class")
       \/ \E err \in InitErrors : InitFails(err, <<"klog_buffer">>)
    /\ UNCHANGED <<klogvars, rwsem_wait, votevars>>

\* klog_class = class_create(CLASS_NAME)
InitClass ==
    /\ module.pc = "class"
    /\ \/ InitAcquires("klog_class", "device")
       \/ \E err \in InitErrors : InitFails(err, <<"chrdev", "klog_buffer">>)
    /\ UNCHANGED <<klogvars, rwsem_wait, votevars>>

\* klog_device = device_create(klog_class, NULL, MKDEV(major_number, 0), NULL, DEVICE_NAME)
InitDevice ==
    /\ module.pc = "device"
    /\ \/ InitAcquires("klog_device", "proc")
       \/ \E err \in InitErrors :
             InitFails(err, <<"klog_class", "chrdev", "klog_buffer">>)
    /\ UNCHANGED <<klogvars, rwsem_wait, votevars>>

\* InitProc whose failure path forgets the buffer.
InitProcLeaksBuffer ==
    /\ module.pc = "proc"
    /\ \/ InitAcquires("klog_proc_entry", "loaded")
       \/ InitFails(-ENOMEM, <<"klog_device", "klog_class", "chrdev">>)
    /\ UNCHANGED <<klogvars, rwsem_wait, votevars>>

\* klog_proc_entry = proc_create(PROC_NAME, 0444, NULL, &klog_proc_fops); return 0
InitProc ==
    /\ module.pc = "proc"
    /\ \/ InitAcquires("klog_proc_entry", "loaded")
       \/ InitFails(-ENOMEM, <<"klog_device", "klog_class", "chrdev", "klog_buffer">>)
    /\ UNCHANGED <<klogvars, rwsem_wait, votevars>>

KlogInit == InitAlloc \/ InitChrdev \/ InitClass \/ InitDevice \/ InitProc

\* Before klog_init: no buffer yet, head and available as their initialisers.
LifeInit ==
    /\ klog_buffer = <<>>
    /\ buffer_head = 0
    /\ buffer_available = 0
    /\ klog_rwsem = [readers |-> 0, writer |-> FALSE]
    /\ pc = [t \in Threads |-> "idle"]
    /\ call = [t \in Threads |-> IdleCall]
    /\ serial = FreshStore
    /\ history = <<>>
    /\ total = 0
    /\ accepted = [mod |-> 0, sat |-> 0]
    /\ rwsem_wait = NoWaiters
    /\ module = Unloaded
    /\ NoVoting

\* The device and the proc entry can be used once klog_init has returned 0.
LifeNext ==
    \/ KlogInit
    \/ module.pc = "loaded" /\ (SeqCall \/ Step(Caller)) /\ UNCHANGED notklog

LifeSpec == LifeInit /\ [][LifeNext]_vars

-----------------------------------------------------------------------------
(* Notions the properties are stated in.                                   *)

\* The logical window of a store: its last avail bytes written, oldest first.
Window(st) ==
    [i \in 1..st.avail |-> st.buf[((st.head + Capacity - st.avail + i - 1) % Capacity) + 1]]

\* The storage cells (C indices) that hold the window.
WindowCells(st) == {(st.head + Capacity - st.avail + i) % Capacity : i \in 0..(st.avail - 1)}

\* s is a prefix of w.
IsPrefix(s, w) == Len(s) <= Len(w) /\ s = SubSeq(w, 1, Len(s))

\* Thread t has returned from a call of handler op and not yet called again.
Returned(t, op) == pc[t] = "done" /\ call[t].op = op

\* The threads between down_write and up_write, and between down_read and up_read.
InWrite == {t \in Threads : pc[t] \in {"w_copy", "w_copy2", "w_update", "w_up"}}

InRead == {t \in Threads : pc[t] \in {"r_check", "r_copy", "r_copy2", "r_up", "d_copy", "d_up"}}

-----------------------------------------------------------------------------
(* Properties.                                                             *)

\* C1: after appends whose total length is at most the capacity, starting from
\* a fresh store, the text klog_proc_show prints is the concatenation of all the
\* appended bytes, whatever their values.
C1_DumpIsAllAppended ==
    \A t \in Threads :
        (Returned(t, "show") /\ call[t].ret = 0 /\ total <= Capacity)
            => call[t].out = history

\* C2: after appends whose total length exceeds the capacity (an append may
\* itself be longer than the capacity), the text klog_proc_show prints is the
\* last Capacity bytes of everything that was appended.
C2_DumpIsLastCapacity ==
    \A t \in Threads :
        (Returned(t, "show") /\ call[t].ret = 0 /\ total > Capacity)
            => call[t].out = history

C4_NoTornRead ==
    \A t \in Threads :
        /\ Returned(t, "read") =>
              \E st \in {call[t].s0, call[t].s1} :
                 LET r == KlogRead(st, call[t].len, call[t].off0, call[t].uvalid)
                 IN  call[t].out = r.out /\ call[t].ret = r.ret
        /\ (Returned(t, "show") /\ call[t].ret = 0) =>
              \E st \in {call[t].s0, call[t].s1} : call[t].out = KlogProcShow(st)

\* A read has returned bytes, and a dump has printed some, while a writer is in
\* the middle of its write.
C4_Witness ==
    \E r \in Threads, d \in Threads :
        /\ Returned(r, "read") /\ call[r].ret > 0
        /\ Returned(d, "show") /\ call[d].out # <<>>
        /\ InWrite # {}

\* C5: the semaphore is held by any number of readers or by exactly one writer:
\* never by two writers, never by a reader and a writer together.
C5_ReadersOrOneWriter ==
    /\ Cardinality(InWrite) <= 1
    /\ InWrite # {} => InRead = {}
    /\ klog_rwsem.readers = Cardinality(InRead)
    /\ klog_rwsem.writer <=> InWrite # {}

\* Two readers hold the semaphore together while a writer waits in down_write.
C5_Witness == Cardinality(InRead) = 2 /\ \E t \in Threads : pc[t] = "w_down"

\* C6: a read at an offset inside the window returns n = min(len, available -
\* offset) bytes, the bytes offset .. offset+n-1 of the window.
C6_ReadAtReturnsWindowSlice ==
    \A t \in Threads :
        (Returned(t, "read") /\ call[t].ret >= 0 /\ call[t].off0 < buffer_available)
            => LET n == Min(call[t].len, buffer_available - call[t].off0)
               IN  /\ call[t].ret = n
                   /\ call[t].out = SubSeq(Window(CurStore), call[t].off0 + 1, call[t].off0 + n)

\* C7: no read copies out a storage cell that lies outside the window, and no
\* dump prints anything but a prefix of the window.
C7_NothingOutsideWindow ==
    \A t \in Threads :
        /\ Returned(t, "read") =>
              \A i \in 0..(Len(call[t].out) - 1) :
                 (call[t].pos + i) % Capacity \in WindowCells(CurStore)
        /\ Returned(t, "show") => IsPrefix(call[t].out, Window(CurStore))

\* C8: 0 <= head < capacity and 0 <= available <= capacity, always.
C8_HeadAndAvailableInRange ==
    /\ buffer_head \in 0..(Capacity - 1)
    /\ buffer_available \in 0..Capacity

\* A write that wrapped around the end of the buffer has returned.
C8_Witness ==
    \E t \in Threads :
        /\ Returned(t, "write") /\ call[t].ret > 0
        /\ call[t].h0 + call[t].ret > Capacity
        /\ buffer_available = Capacity

\* C9: an append of a readable buffer succeeds; a successful append of len bytes
\* returns n = min(len, capacity), moves head to (old head + n) mod capacity and
\* sets available to min(old available + n, capacity).
C9_AppendResult ==
    \A t \in Threads :
        Returned(t, "write") =>
            /\ call[t].uvalid = call[t].len => call[t].ret >= 0
            /\ call[t].ret >= 0 =>
                  /\ call[t].ret = (IF call[t].len < Capacity THEN call[t].len ELSE Capacity)
                  /\ buffer_head = (call[t].h0 + call[t].ret) % Capacity
                  /\ buffer_available =
                        (IF call[t].a0 + call[t].ret < Capacity
                         THEN call[t].a0 + call[t].ret ELSE Capacity)

\* An append has returned that filled a partly filled buffer past its capacity.
C9_Witness ==
    \E t \in Threads :
        /\ Returned(t, "write") /\ call[t].ret > 0
        /\ call[t].a0 \in 1..(Capacity - 1)
        /\ call[t].a0 + call[t].ret > Capacity

\* C10: concurrent writes are serialised: whenever no writer is between its
\* down_write and up_write, storage, head and available are what the writes
\* made so far give when run whole, one after another, in the order in which
\* they held the semaphore.
C10_WritesSerialised == InWrite = {} => CurStore = serial

\* Two writers have both returned from successful writes, the second one having
\* started where the first one ended, and the buffer is full.
C10_Witness ==
    \E t \in Threads, u \in Threads :
        /\ t # u
        /\ Returned(t, "write") /\ call[t].ret > 0
        /\ Returned(u, "write") /\ call[u].ret > 0
        /\ call[u].h0 = (call[t].h0 + call[t].ret) % Capacity
        /\ buffer_available = Capacity

\* C11: storage, head and available are written only by a thread that holds
\* the semaphore exclusively, and read only by a thread that holds it (shared
\* for klog_read and klog_proc_show, exclusive for klog_write): every step
\* that touches them lies between the thread's down_* and its up_*.
C11_TripleOnlyUnderGuard ==
    [][\A t \in Threads :
          /\ (WriteCopy(t) \/ WriteCopy2(t) \/ WriteUpdate(t)) =>
                klog_rwsem.writer /\ call[t].acq = 1 /\ call[t].rel = 0
          /\ (ReadCheck(t) \/ ReadCopy(t) \/ ReadCopy2(t) \/ ShowCopy(t)) =>
                klog_rwsem.readers > 0 /\ call[t].acq = 1 /\ call[t].rel = 0
          /\ (pc'[t] # pc[t] /\ store' # store) =>
                /\ call[t].op = "write"
                /\ klog_rwsem.writer /\ call[t].acq = 1 /\ call[t].rel = 0]_vars

\* A writer has changed the storage and is about to update head and available,
\* while a reader and a dump wait in down_read.
C11_Witness ==
    \E w \in Threads, r \in Threads, d \in Threads :
        /\ pc[w] = "w_update" /\ klog_buffer # call[w].s0.buf
        /\ pc[r] = "r_down" /\ pc[d] = "d_down"

\* C12: when a write fails because a copy from the caller faults, storage, head
\* and available are as they were at its down_write, so the window a dump
\* would return is the same as before the write.
C12_FailedWriteLeavesStore ==
    \A t \in Threads :
        (pc[t] = "w_up" /\ call[t].ret = -EFAULT) => CurStore = call[t].s0

\* C13: every call of klog_read, klog_write and klog_proc_show has taken the
\* semaphore exactly once and released it exactly once when it returns, on
\* every path (end of file, -EFAULT, -ENOMEM, success), and holds it at most
\* once at any time; when no call is in progress the semaphore is free.
C13_GuardTakenAndReleasedOnce ==
    /\ \A t \in Threads :
          /\ call[t].acq \in 0..1 /\ call[t].rel \in 0..call[t].acq
          /\ pc[t] = "done" => call[t].acq = 1 /\ call[t].rel = 1
    /\ (\A t \in Threads : pc[t] \in {"idle", "done"}) =>
          klog_rwsem = [readers |-> 0, writer |-> FALSE]

\* A dump has returned -ENOMEM from a store that holds data.
C13_Witness ==
    \E t \in Threads :
        Returned(t, "show") /\ call[t].ret = -ENOMEM /\ buffer_available > 0

\* C14: the text a dump prints equals what a read of the whole window returns
\* (a read at offset 0 of available bytes), for every reachable head and
\* available and any window contents.
C14_DumpEqualsReadAtZero ==
    \A t \in Threads :
        (Returned(t, "show") /\ call[t].ret = 0)
            => /\ call[t].out =
                     KlogRead(CurStore, buffer_available, 0, buffer_available).out
               /\ Len(call[t].out) = buffer_available

\* The window klog_proc_show assembles in its temporary buffer, before it is
\* printed, is what a read of the whole window returns.
TempEqualsReadAtZero ==
    \A t \in Threads :
        pc[t] = "d_print"
            => call[t].temp =
                  KlogRead(CurStore, buffer_available, 0, buffer_available).out \o <<NUL>>

\* C15: a read whose offset is equal to or greater than available returns 0,
\* which is not an error, and copies nothing, whatever the requested length,
\* the user buffer and the store (the empty store included).
C15_ReadPastEndIsEmpty ==
    \A t \in Threads :
        (Returned(t, "read") /\ call[t].off0 >= buffer_available)
            => call[t].ret = 0 /\ call[t].out = <<>> /\ call[t].off = call[t].off0

\* A read of at least one byte at the offset equal to available has returned
\* from a store that holds data.
C15_Witness ==
    \E t \in Threads :
        /\ Returned(t, "read") /\ call[t].len > 0
        /\ buffer_available > 0 /\ call[t].off0 = buffer_available

\* C16: available never decreases: no step of any call, successful or failed,
\* leaves it smaller than it was; once at Capacity it stays there.
C16_AvailableNeverDecreases ==
    [][/\ buffer_available' >= buffer_available
       /\ buffer_available = Capacity => buffer_available' = Capacity]_vars

\* A successful append to a full store has returned.
C16_Witness ==
    \E t \in Threads :
        /\ Returned(t, "write") /\ call[t].ret > 0
        /\ call[t].a0 = Capacity /\ buffer_available = Capacity

\* C17: klog_read and klog_proc_show have no effect on the store: no step of a
\* read or of a dump changes storage, head or available, whatever the input
\* and whether the call succeeds, meets the end of the data or fails.
C17_ReadsLeaveStore ==
    [][\A t \in Threads :
          (/\ pc'[t] # pc[t]
           /\ \/ call[t].op \in {"read", "show"}
              \/ call'[t].op \in {"read", "show"})
             => store' = store]_vars

\* A read of a store that holds data has failed with -EFAULT after copying
\* part of what was asked for.
C17_Witness ==
    \E t \in Threads :
        /\ Returned(t, "read") /\ call[t].ret = -EFAULT
        /\ call[t].out # <<>> /\ buffer_available > 0

\* C18: a read is idempotent: a read repeated with the same offset and the
\* same length, no write having completed in between, returns the same bytes
\* and the same count as the first one.
C18_ReadAtIdempotent ==
    \A t \in Threads :
        (Returned(t, "read") /\ call[t].prev.set)
            => call[t].out = call[t].prev.out /\ call[t].ret = call[t].prev.ret

\* A read at an offset inside the window that wrapped around the end of the
\* storage has been repeated and has returned bytes again.
C18_Witness ==
    \E t \in Threads :
        /\ Returned(t, "read") /\ call[t].prev.set
        /\ call[t].ret > 0 /\ call[t].off0 > 0
        /\ call[t].pos + call[t].ret > Capacity

\* C20: a descriptor that reads again and again with one request length, from
\* file position 0, each read starting where the one before left the position
\* and no write in between, receives the bytes of the window once each and in
\* order, then 0; in all it receives available bytes.
C20_SequentialReadsCoverWindow ==
    \A t \in Threads :
        (/\ Returned(t, "read")
         /\ call[t].len > 0 /\ call[t].uvalid = call[t].len
         /\ call[t].off0 = Len(call[t].acc))
            => /\ call[t].ret >= 0
               /\ IsPrefix(call[t].acc \o call[t].out, Window(CurStore))
               /\ call[t].ret = 0 <=> Len(call[t].acc) = buffer_available

\* C19: the scenario, at the capacity of the model: once the alphabet (Capacity
\* bytes) is appended, available = Capacity, head = 0 and a dump returns the
\* alphabet; once QR is appended after it, a dump returns the alphabet without
\* its first two letters, followed by QR, a read at offset 0 returns the first
\* bytes of that, and a read at offset Capacity returns nothing.
C19_Scenario ==
    /\ (total = Capacity /\ history = Alphabet /\ InWrite = {}) =>
          /\ buffer_available = Capacity /\ buffer_head = 0
          /\ \A t \in Threads :
                (Returned(t, "show") /\ call[t].ret = 0) => call[t].out = Alphabet
    /\ (history = AfterQR /\ InWrite = {}) =>
          \A t \in Threads :
             /\ (Returned(t, "show") /\ call[t].ret = 0) => call[t].out = AfterQR
             /\ (Returned(t, "read") /\ call[t].off0 = 0 /\ call[t].len <= Capacity) =>
                   /\ call[t].ret = call[t].len
                   /\ call[t].out = SubSeq(AfterQR, 1, call[t].len)
             /\ (Returned(t, "read") /\ call[t].off0 = Capacity) =>
                   call[t].ret = 0 /\ call[t].out = <<>>

\* QR has followed the alphabet and a dump of the store has returned.
C19_Witness ==
    \E t \in Threads :
        /\ history = AfterQR /\ total > Capacity
        /\ Returned(t, "show") /\ call[t].ret = 0 /\ call[t].out = AfterQR

\* C21: while no write is in progress or waiting for the semaphore, no read
\* and no dump waits: a thread that calls down_read is granted the semaphore
\* at once, however many readers hold it.
C21_ReadersNeverWait ==
    (\A w \in Threads : call[w].op = "write" => pc[w] = "done")
        => \A t \in Threads : pc[t] \in {"r_down", "d_down"} => ENABLED DownRead(t)

\* A read calls down_read while a dump holds the semaphore and no write is in
\* progress or waiting.
C21_Witness ==
    /\ \A w \in Threads : call[w].op = "write" => pc[w] = "done"
    /\ \E t \in Threads, d \in Threads :
          pc[t] = "r_down" /\ pc[d] = "d_copy" /\ klog_rwsem.readers = 1

\* C29: the store is fresh when the module is loaded: head = 0, available = 0
\* and the storage zero-filled; on such a store every read returns 0 bytes,
\* whatever the offset and the length, and a dump prints nothing.
C29_FreshStoreIsEmpty ==
    /\ CurStore = FreshStore
    /\ [](CurStore = FreshStore =>
            \A t \in Threads :
               /\ Returned(t, "read") => call[t].ret = 0 /\ call[t].out = <<>>
               /\ (Returned(t, "show") /\ call[t].ret = 0) => call[t].out = <<>>)

\* A read of several bytes at offset 0 has returned before any append.
C29_Witness ==
    \E t \in Threads :
        /\ CurStore = FreshStore /\ total = 0 /\ accepted.sat = 0
        /\ Returned(t, "read") /\ call[t].len > 1 /\ call[t].off0 = 0

\* C30: head is the number of bytes accepted by the successful appends so far,
\* modulo Capacity, and available is that number or Capacity if it is larger;
\* so head = available as long as available < Capacity.
C30_HeadAndAvailableFromTotal ==
    /\ buffer_head = accepted.mod
    /\ buffer_available = accepted.sat
    /\ buffer_available < Capacity => buffer_head = buffer_available

\* An append to a full store that wrapped around the end of the storage has
\* returned, leaving head in the middle of the storage.
C30_Witness ==
    \E t \in Threads :
        /\ Returned(t, "write") /\ call[t].ret > 0
        /\ call[t].a0 = Capacity /\ call[t].h0 + call[t].ret > Capacity
        /\ buffer_head > 0

\* C23: klog_init is all or nothing: when it fails, at whichever step, it
\* returns an error and holds none of the resources it had acquired, each of
\* them released exactly once; when it succeeds it returns 0 and holds them
\* all; no resource is ever released twice or without being held.
C23_InitAllOrNothing ==
    /\ module.pc = "failed" =>
          /\ module.ret < 0
          /\ module.live = {}
          /\ \A r \in Resources :
                module.freed[r] = (IF r \in module.got THEN 1 ELSE 0)
    /\ module.pc = "loaded" =>
          /\ module.ret = 0
          /\ module.live = Resources
          /\ \A r \in Resources : module.freed[r] = 0
    /\ \A r \in Resources : module.freed[r] = 1 => r \notin module.live
    /\ (\E t \in Threads : pc[t] # "idle") => module.pc = "loaded"

\* klog_init has failed at its last step, proc_create, and has released the
\* four resources it held.
C23_Witness ==
    /\ module.pc = "failed"
    /\ \A r \in Resources \ {"klog_proc_entry"} : module.freed[r] = 1

-----------------------------------------------------------------------------
(* The voting programs: voting_system.c and its later version with the     *)
(* console semaphore.  Voters are the writers and observers the readers of *)
(* the segment voting_data; the readers-writers protocol is written by     *)
(* hand with the named semaphores wrt and read_count_sem.  The console     *)
(* semaphore is taken and released around every printf, innermost and      *)
(* without waiting for anything else, and is not modelled.                 *)

\* MAX_VOTERS, the length of voted_ids (1000) and of voter_ids (100), scaled down.
MAX_VOTERS == 2

\* candidate_count as the user enters it, scaled down.
NumCandidates == 1

\* Most votes counted before the callers stop calling cast_vote.
MaxVotes == MAX_VOTERS + 2

\* The voter IDs handed to cast_vote: one more than voted_ids can hold.
VoterIds == 1..(MAX_VOTERS + 1)

\* The candidate IDs handed to cast_vote; NumCandidates itself is not valid.
CandidateIds == 0..NumCandidates

Voters == {"v1", "v2"}

Observers == {"o1", "o2"}

Workers == Voters \cup Observers

\* A worker outside cast_vote and view_results.
IdleWorker ==
    [pc |-> "idle", voter_id |-> 0, candidate_id |-> 0, iterations |-> 0, seen |-> <<>>,
     console |-> "none"]

\* The segment after initialize_resources: memset to 0, candidate_count set.
FreshVotingData ==
    [candidate_count |-> NumCandidates,
     votes |-> [c \in 0..(NumCandidates - 1) |-> 0],
     total_votes |-> 0,
     voted_ids |-> [i \in 0..(MAX_VOTERS - 1) |-> 0],
     voted_count |-> 0,
     reader_count |-> 0]

NoBallots == [tally |-> [id \in VoterIds |-> 0]]

\* The device beside a voting program: loaded, and nobody uses it.
KlogIdle ==
    /\ klog_buffer = Zeroes
    /\ buffer_head = 0
    /\ buffer_available = 0
    /\ klog_rwsem = [readers |-> 0, writer |-> FALSE]
    /\ pc = [t \in Threads |-> "idle"]
    /\ call = [t \in Threads |-> IdleCall]
    /\ serial = FreshStore
    /\ history = <<>>
    /\ total = 0
    /\ accepted = [mod |-> 0, sat |-> 0]
    /\ rwsem_wait = NoWaiters
    /\ module = Loaded

\* initialize_resources: the semaphores are unlinked and created with value 1.
VoteInit ==
    /\ KlogIdle
    /\ voting_data = FreshVotingData
    /\ wrt = 1
    /\ read_count_sem = 1
    /\ proc = [p \in Workers |-> IdleWorker]
    /\ ballots = NoBallots

At(p, label) == proc[p].pc = label

Move(p, label) == proc' = [proc EXCEPT ![p].pc = label]

\* reader_enter: sem_wait(read_count_sem); ++voting_data->reader_count
ReaderEnterCount(p) ==
    /\ At(p, "reader_enter")
    /\ read_count_sem > 0
    /\ read_count_sem' = read_count_sem - 1
    /\ voting_data' = [voting_data EXCEPT !.reader_count = @ + 1]
    /\ Move(p, IF voting_data'.reader_count = 1 THEN "first_reader" ELSE "entered")
    /\ UNCHANGED <<wrt, ballots>>

\* A first reader that does not wait for wrt.
ReaderEnterSkipsWrt(p) ==
    /\ At(p, "first_reader")
    /\ Move(p, "entered")
    /\ UNCHANGED <<voting_data, wrt, read_count_sem, ballots>>

\* reader_enter: sem_wait(wrt), by the first reader only
ReaderEnterWrt(p) ==
    /\ At(p, "first_reader")
    /\ wrt > 0
    /\ wrt' = wrt - 1
    /\ Move(p, "entered")
    /\ UNCHANGED <<voting_data, read_count_sem, ballots>>

\* reader_enter: sem_post(read_count_sem)
ReaderEnterPost(p) ==
    /\ At(p, "entered")
    /\ read_count_sem' = read_count_sem + 1
    /\ Move(p, "reading")
    /\ UNCHANGED <<voting_data, wrt, ballots>>

\* view_results between reader_enter and reader_exit: the tally is printed.
ViewResults(p) ==
    /\ At(p, "reading")
    /\ Move(p, "reader_exit")
    /\ UNCHANGED <<voting_data, wrt, read_count_sem, ballots>>

\* ReaderExitCount whose last reader does not post wrt.
ReaderExitKeepsWrt(p) ==
    /\ At(p, "reader_exit")
    /\ read_count_sem > 0
    /\ read_count_sem' = read_count_sem - 1
    /\ voting_data' = [voting_data EXCEPT !.reader_count = @ - 1]
    /\ Move(p, "exited")
    /\ UNCHANGED <<wrt, ballots>>

\* reader_exit: sem_wait(read_count_sem); if (--reader_count == 0) sem_post(wrt)
ReaderExitCount(p) ==
    /\ At(p, "reader_exit")
    /\ read_count_sem > 0
    /\ read_count_sem' = read_count_sem - 1
    /\ voting_data' = [voting_data EXCEPT !.reader_count = @ - 1]
    /\ wrt' = IF voting_data'.reader_count = 0 THEN wrt + 1 ELSE wrt
    /\ Move(p, "exited")
    /\ UNCHANGED ballots

\* reader_exit: sem_post(read_count_sem); view_results returns
ReaderExitPost(p) ==
    /\ At(p, "exited")
    /\ read_count_sem' = read_count_sem + 1
    /\ Move(p, "returned")
    /\ UNCHANGED <<voting_data, wrt, ballots>>

\* WriterEnter that does not wait for wrt.
WriterEnterNoWait(p) ==
    /\ At(p, "writer_enter")
    /\ Move(p, "scan")
    /\ UNCHANGED <<voting_data, wrt, read_count_sem, ballots>>

\* writer_enter: sem_wait(wrt)
WriterEnter(p) ==
    /\ At(p, "writer_enter")
    /\ wrt > 0
    /\ wrt' = wrt - 1
    /\ Move(p, "scan")
    /\ UNCHANGED <<voting_data, read_count_sem, ballots>>

\* voter_id is among voted_ids[0 .. voted_count - 1].
HasVoted(d, voter_id) ==
    \E i \in 0..(d.voted_count - 1) : d.voted_ids[i] = voter_id

ValidCandidate(d, candidate_id) ==
    candidate_id >= 0 /\ candidate_id < d.candidate_count

\* CastVoteCheck whose error paths return without writer_exit.
CastVoteCheckReturnsHeld(p) ==
    /\ At(p, "scan")
    /\ Move(p, IF HasVoted(voting_data, proc[p].voter_id)
                     \/ ~ValidCandidate(voting_data, proc[p].candidate_id)
               THEN "returned" ELSE "cast")
    /\ UNCHANGED <<voting_data, wrt, read_count_sem, ballots>>

\* cast_vote: the scan of voted_ids and the check of candidate_id; either
\* failure goes to writer_exit.
CastVoteCheck(p) ==
    /\ At(p, "scan")
    /\ Move(p, IF HasVoted(voting_data, proc[p].voter_id)
                     \/ ~ValidCandidate(voting_data, proc[p].candidate_id)
               THEN "writer_exit" ELSE "cast")
    /\ UNCHANGED <<voting_data, wrt, read_count_sem, ballots>>

\* What the three increments of cast_vote read: votes[candidate_id],
\* total_votes and voted_count.
Fetched(d, candidate_id) ==
    [votes |-> d.votes[candidate_id], total_votes |-> d.total_votes,
     voted_count |-> d.voted_count]

\* cast_vote: the operands of votes[candidate_id]++, total_votes++ and
\* voted_count++ are read.
CastVoteLoad(p) ==
    /\ At(p, "cast")
    /\ proc' = [proc EXCEPT ![p] = [@ EXCEPT !.pc = "count",
                                             !.seen = Fetched(voting_data, proc[p].candidate_id)]]
    /\ UNCHANGED <<voting_data, wrt, read_count_sem, ballots>>

\* The segment after votes[candidate_id]++, total_votes++ and
\* if (voted_count < MAX_VOTERS) voted_ids[voted_count++] = voter_id, each
\* increment storing one more than the value seen.
Recorded(d, seen, voter_id, candidate_id) ==
    LET counted == [d EXCEPT !.votes[candidate_id] = seen.votes + 1,
                             !.total_votes = seen.total_votes + 1]
    IN  IF seen.voted_count < MAX_VOTERS
        THEN [counted EXCEPT !.voted_ids[seen.voted_count] = voter_id,
                             !.voted_count = seen.voted_count + 1]
        ELSE counted

\* cast_vote: the vote is counted and the voter ID recorded.
CastVoteCount(p) ==
    /\ At(p, "count")
    /\ voting_data' = Recorded(voting_data, proc[p].seen, proc[p].voter_id,
                               proc[p].candidate_id)
    /\ ballots' = [ballots EXCEPT !.tally[proc[p].voter_id] = @ + 1]
    /\ Move(p, "writer_exit")
    /\ UNCHANGED <<wrt, read_count_sem>>

\* writer_exit: sem_post(wrt); cast_vote returns
WriterExit(p) ==
    /\ At(p, "writer_exit")
    /\ wrt' = wrt + 1
    /\ Move(p, "returned")
    /\ UNCHANGED <<voting_data, read_count_sem, ballots>>

\* What a worker does inside view_results or cast_vote.
VoteStep(p) ==
    \/ ReaderEnterCount(p)
    \/ ReaderEnterWrt(p)
    \/ ReaderEnterPost(p)
    \/ ViewResults(p)
    \/ ReaderExitCount(p)
    \/ ReaderExitPost(p)
    \/ WriterEnter(p)
    \/ CastVoteCheck(p)
    \/ CastVoteLoad(p)
    \/ CastVoteCount(p)
    \/ WriterExit(p)

\* cast_vote(voter_id, candidate_id) is called: by a voter thread, by a voter
\* process, or from the menu of manual_mode.
CallCastVote(p, voter_id, candidate_id) ==
    /\ p \in Voters
    /\ At(p, "idle")
    /\ voting_data.total_votes < MaxVotes
    /\ proc' = [proc EXCEPT ![p] = [@ EXCEPT !.pc = "writer_enter",
                                             !.voter_id = voter_id,
                                             !.candidate_id = candidate_id]]
    /\ UNCHANGED <<voting_data, wrt, read_count_sem, ballots>>

\* view_results() is called.
CallViewResults(p) ==
    /\ p \in Observers
    /\ At(p, "idle")
    /\ Move(p, "reader_enter")
    /\ UNCHANGED <<voting_data, wrt, read_count_sem, ballots>>

\* cast_vote or view_results has returned to its caller.
VoteReturn(p) ==
    /\ At(p, "returned")
    /\ proc' = [proc EXCEPT ![p] = IdleWorker]
    /\ UNCHANGED <<voting_data, wrt, read_count_sem, ballots>>

VoteCall(p) ==
    \/ \E id \in VoterIds, c \in CandidateIds : CallCastVote(p, id, c)
    \/ CallViewResults(p)
    \/ VoteReturn(p)

VoteNext ==
    /\ \E p \in Workers : VoteCall(p) \/ VoteStep(p)
    /\ UNCHANGED <<klogvars, rwsem_wait, module>>

\* Any mix of voters and observers calling cast_vote and view_results.
VoteSpec == VoteInit /\ [][VoteNext]_vars

\* The workers inside the write section and inside the read section.
InWriteSection ==
    {p \in DOMAIN proc : proc[p].pc \in {"scan", "cast", "count", "writer_exit"}}

InReadSection == {p \in DOMAIN proc : proc[p].pc \in {"reading", "reader_exit"}}

-----------------------------------------------------------------------------
(* OS_Project.c: the same protocol written out in reader_thread,           *)
(* writer_thread, reader_process, writer_process and the menu of main,     *)
(* with readcnt_mutex for read_count_sem and *readcount for reader_count.  *)
(* The model starts after initialize_system has returned.                  *)

OSReaders == {"r1", "r2"}

OSWriters == {"w1", "w2"}

OSWorkers == OSReaders \cup OSWriters

\* The segment after initialize_system, with the flag running of the parent.
FreshOSData ==
    [votes |-> [c \in 0..(NumCandidates - 1) |-> 0],
     voter_ids |-> [i \in 0..(MAX_VOTERS - 1) |-> 0],
     voter_count |-> 0,
     candidate_count |-> NumCandidates,
     readcount |-> 0,
     running |-> 1]

OSInit ==
    /\ KlogIdle
    /\ voting_data = FreshOSData
    /\ wrt = 1
    /\ read_count_sem = 1
    /\ proc = [p \in OSWorkers |-> IdleWorker]
    /\ ballots = NoBallots

\* sem_wait(readcnt_mutex); (*readcount)++
OSReaderCount(p) ==
    /\ At(p, "reader_enter")
    /\ read_count_sem > 0
    /\ read_count_sem' = read_count_sem - 1
    /\ voting_data' = [voting_data EXCEPT !.readcount = @ + 1]
    /\ Move(p, IF voting_data'.readcount = 1 THEN "first_reader" ELSE "entered")
    /\ UNCHANGED <<wrt, ballots>>

\* A first reader that leaves wrt to the writers.
OSReaderLeavesWrt(p) ==
    /\ At(p, "first_reader")
    /\ Move(p, "entered")
    /\ UNCHANGED <<voting_data, wrt, read_count_sem, ballots>>

\* if (*readcount == 1) sem_wait(wrt)
OSReaderWrt(p) ==
    /\ At(p, "first_reader")
    /\ wrt > 0
    /\ wrt' = wrt - 1
    /\ Move(p, "entered")
    /\ UNCHANGED <<voting_data, read_count_sem, ballots>>

\* sem_post(readcnt_mutex)
OSReaderPost(p) ==
    /\ At(p, "entered")
    /\ read_count_sem' = read_count_sem + 1
    /\ Move(p, "reading")
    /\ UNCHANGED <<voting_data, wrt, ballots>>

\* Critical section of a reader: the vote counts are logged and printed.
OSRead(p) ==
    /\ At(p, "reading")
    /\ Move(p, "reader_exit")
    /\ UNCHANGED <<voting_data, wrt, read_count_sem, ballots>>

\* sem_wait(readcnt_mutex); (*readcount)--; if (*readcount == 0) sem_post(wrt)
OSReaderExitCount(p) ==
    /\ At(p, "reader_exit")
    /\ read_count_sem > 0
    /\ read_count_sem' = read_count_sem - 1
    /\ voting_data' = [voting_data EXCEPT !.readcount = @ - 1]
    /\ wrt' = IF voting_data'.readcount = 0 THEN wrt + 1 ELSE wrt
    /\ Move(p, "exited")
    /\ UNCHANGED ballots

\* sem_post(readcnt_mutex); the end of one pass of the reader's loop
OSReaderExitPost(p) ==
    /\ At(p, "exited")
    /\ read_count_sem' = read_count_sem + 1
    /\ Move(p, "pass_done")
    /\ UNCHANGED <<voting_data, wrt, ballots>>

\* sem_wait(wrt) of a writer
OSWriterWait(p) ==
    /\ At(p, "writer_enter")
    /\ wrt > 0
    /\ wrt' = wrt - 1
    /\ Move(p, "cast")
    /\ UNCHANGED <<voting_data, read_count_sem, ballots>>

\* voter_id is among voter_ids[0 .. voter_count - 1].
OSDuplicate(d, voter_id) ==
    \E j \in 0..(d.voter_count - 1) : d.voter_ids[j] = voter_id

\* votes[candidate]++; voter_ids[voter_count++] = voter_id
OSRecorded(d, voter_id, candidate) ==
    [d EXCEPT !.votes[candidate] = @ + 1,
              !.voter_ids = [i \in DOMAIN d.voter_ids \cup {d.voter_count} |->
                                IF i = d.voter_count THEN voter_id ELSE d.voter_ids[i]],
              !.voter_count = @ + 1]

\* The vote is recorded whenever the voter ID is new.
OSVoteChecksDuplicateOnly(d, voter_id) == ~OSDuplicate(d, voter_id)

\* if (!duplicate && voting_data->voter_count < MAX_VOTERS)
OSVoteAccepted(d, voter_id) ==
    ~OSDuplicate(d, voter_id) /\ d.voter_count < MAX_VOTERS

\* Critical section of a writer: the duplicate scan, then the vote or a message.
OSWriterVote(p) ==
    /\ At(p, "cast")
    /\ IF OSVoteAccepted(voting_data, proc[p].voter_id)
       THEN /\ voting_data' = OSRecorded(voting_data, proc[p].voter_id,
                                          proc[p].candidate_id)
            /\ ballots' = [ballots EXCEPT !.tally[proc[p].voter_id] = @ + 1]
       ELSE UNCHANGED <<voting_data, ballots>>
    /\ Move(p, "writer_exit")
    /\ UNCHANGED <<wrt, read_count_sem>>

\* sem_post(wrt) of a writer; the end of one pass of the writer's loop
OSWriterPost(p) ==
    /\ At(p, "writer_exit")
    /\ wrt' = wrt + 1
    /\ Move(p, "pass_done")
    /\ UNCHANGED <<voting_data, read_count_sem, ballots>>

\* while (running): a reader starts a pass.
OSReaderLoop(p) ==
    /\ p \in OSReaders
    /\ At(p, "idle")
    /\ voting_data.running = 1
    /\ Move(p, "reader_enter")
    /\ UNCHANGED <<voting_data, wrt, read_count_sem, ballots>>

\* while (running): a writer starts a pass with voter_id = rand() % 1000 + 1
\* and candidate = rand() % candidate_count.
OSWriterLoop(p, voter_id, candidate) ==
    /\ p \in OSWriters
    /\ At(p, "idle")
    /\ voting_data.running = 1
    /\ proc' = [proc EXCEPT ![p] = [@ EXCEPT !.pc = "writer_enter",
                                             !.voter_id = voter_id,
                                             !.candidate_id = candidate]]
    /\ UNCHANGED <<voting_data, wrt, read_count_sem, ballots>>

\* The sleep after a pass is over: back to while (running).
OSPassEnds(p) ==
    /\ p \in OSWorkers
    /\ At(p, "pass_done")
    /\ proc' = [proc EXCEPT ![p] = IdleWorker]
    /\ UNCHANGED <<voting_data, wrt, read_count_sem, ballots>>

\* while (running) ends: the thread returns.
OSLoopEnds(p) ==
    /\ p \in OSWorkers
    /\ At(p, "idle")
    /\ voting_data.running = 0
    /\ Move(p, "done")
    /\ UNCHANGED <<voting_data, wrt, read_count_sem, ballots>>

\* Menu entry 5, Exit: running = 0.
OSExit ==
    /\ voting_data.running = 1
    /\ voting_data' = [voting_data EXCEPT !.running = 0]
    /\ UNCHANGED <<wrt, read_count_sem, proc, ballots>>

OSStep(p) ==
    \/ OSReaderCount(p)
    \/ OSReaderWrt(p)
    \/ OSReaderPost(p)
    \/ OSRead(p)
    \/ OSReaderExitCount(p)
    \/ OSReaderExitPost(p)
    \/ OSWriterWait(p)
    \/ OSWriterVote(p)
    \/ OSWriterPost(p)

OSLoop(p) ==
    \/ OSReaderLoop(p)
    \/ \E id \in VoterIds, c \in 0..(NumCandidates - 1) : OSWriterLoop(p, id, c)
    \/ OSPassEnds(p)
    \/ OSLoopEnds(p)

OSNext ==
    /\ \/ \E p \in OSWorkers : OSLoop(p) \/ OSStep(p)
       \/ OSExit
    /\ UNCHANGED <<klogvars, rwsem_wait, module>>

\* The reader and writer threads of OS_Project.c.
OSSpec == OSInit /\ [][OSNext]_vars

\* Either family of voting programs.
PollNext ==
    \/ /\ DOMAIN proc = Workers
       /\ VoteNext
    \/ /\ DOMAIN proc = OSWorkers
       /\ OSNext

PollInit == VoteInit \/ OSInit

PollSpec == PollInit /\ [][PollNext]_vars

-----------------------------------------------------------------------------
(* Properties of the voting programs.                                      *)

\* C24: in the voting programs at most one voter is inside the write section
\* (between sem_wait(wrt) and sem_post(wrt)) at any time, and no observer is
\* inside the read section (between reader_enter and reader_exit) while a
\* voter is inside the write section.
C24_WritersExclusive ==
    /\ Cardinality(InWriteSection) <= 1
    /\ InWriteSection # {} => InReadSection = {}

\* A voter is inside the write section while another voter waits for wrt and
\* the first observer waits for wrt inside reader_enter.
C24_Witness ==
    /\ InWriteSection # {}
    /\ \E p \in DOMAIN proc : proc[p].pc = "writer_enter"
    /\ \E p \in DOMAIN proc : proc[p].pc = "first_reader"

\* C25: after any sequence of cast_vote calls every voter ID has added at most
\* one vote to votes[] and total_votes: a cast_vote for an ID that has voted
\* successfully before counts nothing.
C25_OneVotePerVoter ==
    \A id \in VoterIds : ballots.tally[id] <= 1

\* C26: in OS_Project.c voter_count never exceeds MAX_VOTERS, every index of
\* voter_ids that is written is below MAX_VOTERS, and a vote attempted when
\* voter_count = MAX_VOTERS changes neither votes[] nor voter_ids nor
\* voter_count.
C26_VoterLimit ==
    /\ [](/\ voting_data.voter_count <= MAX_VOTERS
          /\ DOMAIN voting_data.voter_ids \subseteq 0..(MAX_VOTERS - 1))
    /\ [][(/\ voting_data.voter_count = MAX_VOTERS
           /\ \E p \in OSWriters : At(p, "cast") /\ proc'[p].pc = "writer_exit")
          => /\ voting_data'.votes = voting_data.votes
             /\ voting_data'.voter_ids = voting_data.voter_ids
             /\ voting_data'.voter_count = voting_data.voter_count]_vars

\* A writer has just tried to vote with a new voter ID while voter_ids was
\* full, and still holds wrt.
C26_Witness ==
    \E p \in DOMAIN proc :
        /\ p \in OSWriters
        /\ proc[p].pc = "writer_exit"
        /\ voting_data.voter_count = MAX_VOTERS
        /\ ~OSDuplicate(voting_data, proc[p].voter_id)

-----------------------------------------------------------------------------
(* A schedule of the threads of OS_Project.c in which the readers overlap: *)
(* the sleeps of reader_thread fall so that no reader leaves the read      *)
(* section as the last one, and no writer is served.  Nobody chooses Exit. *)

StarveStep(p) ==
    \/ OSReaderLoop(p)
    \/ \E id \in VoterIds, c \in 0..(NumCandidates - 1) : OSWriterLoop(p, id, c)
    \/ OSReaderCount(p)
    \/ OSReaderWrt(p)
    \/ OSReaderPost(p)
    \/ OSRead(p)
    \/ voting_data.readcount > 1 /\ OSReaderExitCount(p)
    \/ OSReaderExitPost(p)
    \/ OSPassEnds(p)

StarveRun(p) == StarveStep(p) /\ UNCHANGED <<klogvars, rwsem_wait, module>>

StarveNext == \E p \in OSWorkers : StarveRun(p)

\* Every thread goes on running: a thread whose next step is possible again
\* and again takes it.
StarveSpec ==
    /\ OSInit
    /\ [][StarveNext]_vars
    /\ \A p \in OSWorkers : SF_vars(StarveRun(p))

\* What thread p can do in OS_Project.c, whatever the schedule.
OSRun(p) == (OSLoop(p) \/ OSStep(p)) /\ UNCHANGED <<klogvars, rwsem_wait, module>>

\* C27: the protocol lets writers starve.  The schedule of overlapping readers
\* is an execution of OS_Project.c, it is fair to every thread (no step of a
\* thread is possible again and again without being taken), every reader reads
\* again and again, and every writer comes to wait for wrt and waits for ever
\* with readcount above 0.
C27_WriterStarves ==
    /\ [][OSNext]_vars
    /\ \A p \in OSWorkers : SF_vars(OSRun(p))
    /\ \A r \in OSReaders : []<>At(r, "reading")
    /\ \A w \in OSWriters :
          <>[](At(w, "writer_enter") /\ voting_data.readcount > 0 /\ wrt = 0)

\* A writer waits for wrt while both readers are inside the read section.
C27_Witness ==
    /\ DOMAIN proc = OSWorkers
    /\ \E w \in OSWriters : proc[w].pc = "writer_enter"
    /\ \A r \in OSReaders : proc[r].pc \in {"reading", "reader_exit"}
    /\ voting_data.readcount = Cardinality(OSReaders)

-----------------------------------------------------------------------------
(* The simulations: thread_mode and process_mode of voting_system.c (and   *)
(* of its later version), and the process simulation of OS_Project.c on    *)
(* its own or started from the menu while the reader threads of the thread *)
(* simulation are running.  The model starts when the workers have been    *)
(* created and main is about to wait for them.  thread_mode is run with two *)
(* voters and one observer, process_mode with two voters and two           *)
(* observers, the process simulation of OS_Project.c with one reader and   *)
(* one writer process, or with one writer process beside two reader        *)
(* threads.                                                                *)

\* while (iterations < 10) of observer_thread
ObserverThreadRounds == 10

\* for (int i = 0; i < 5; i++) of run_observer_process
ObserverProcessRounds == 5

\* for (int i = 0; i < 5; i++) of reader_process
ReaderProcessRounds == 5

\* for (int i = 0; i < 3; i++) of writer_process
WriterProcessRounds == 3

OSReaderProcs == {"rp1"}

OSWriterProcs == {"wp1"}

Modes == {"thread_mode", "process_mode", "os_processes", "os_threads_and_processes"}

VotingSystemModes == {"thread_mode", "process_mode"}

\* The workers of a simulation.
SimWorkers(m) ==
    CASE m = "thread_mode" -> Voters \cup {"o1"}
      [] m = "process_mode" -> Workers
      [] m = "os_processes" -> OSReaderProcs \cup OSWriterProcs
      [] m = "os_threads_and_processes" -> OSReaders \cup OSWriterProcs

AllSimWorkers == Workers \cup OSReaders \cup OSReaderProcs \cup OSWriterProcs \cup {"main"}

\* main, waiting for the workers of simulation m.
MainWaits(m) ==
    [pc |-> "join", voter_id |-> 0, candidate_id |-> 0, iterations |-> 0, seen |-> <<>>,
     console |-> "none", mode |-> m]

SimInit ==
    \E m \in Modes :
        /\ KlogIdle
        /\ voting_data = IF m \in VotingSystemModes THEN FreshVotingData ELSE FreshOSData
        /\ wrt = 1
        /\ read_count_sem = 1
        /\ proc = [p \in SimWorkers(m) \cup {"main"} |->
                      IF p = "main" THEN MainWaits(m) ELSE IdleWorker]
        /\ ballots = NoBallots

Mode == proc["main"].mode

\* The workers main waits for: all but the reader threads of OS_Project.c.
Joinable == DOMAIN proc \ (OSReaders \cup {"main"})

\* The passes a worker makes: cast_vote once, or the bound of its loop.
Rounds(p) ==
    CASE p \in Voters -> 1
      [] p \in Observers -> IF Mode = "thread_mode" THEN ObserverThreadRounds
                            ELSE ObserverProcessRounds
      [] p \in OSReaderProcs -> ReaderProcessRounds
      [] p \in OSWriterProcs -> WriterProcessRounds

\* voter_thread and run_voter_process are handed the voter IDs i + 1.
VoterNumber(p) == IF p = "v1" THEN 1 ELSE 2

\* voter_thread / run_voter_process: cast_vote(voter_id, rand() % candidate_count)
VoterCasts(p, candidate_id) ==
    /\ p \in Voters
    /\ At(p, "idle")
    /\ proc[p].iterations < Rounds(p)
    /\ proc' = [proc EXCEPT ![p] = [@ EXCEPT !.pc = "writer_enter",
                                             !.voter_id = VoterNumber(p),
                                             !.candidate_id = candidate_id]]
    /\ UNCHANGED <<voting_data, wrt, read_count_sem, ballots>>

\* observer_thread / run_observer_process: the loop goes on with view_results()
ObserverViews(p) ==
    /\ p \in Observers
    /\ At(p, "idle")
    /\ proc[p].iterations < Rounds(p)
    /\ Move(p, "reader_enter")
    /\ UNCHANGED <<voting_data, wrt, read_count_sem, ballots>>

\* cast_vote or view_results has returned, or the pass of a process of
\* OS_Project.c is over: iterations++ (i++).
PassCounted(p) ==
    /\ p \in Joinable
    /\ At(p, "returned") \/ At(p, "pass_done")
    /\ proc' = [proc EXCEPT ![p] = [IdleWorker EXCEPT !.iterations = proc[p].iterations + 1]]
    /\ UNCHANGED <<voting_data, wrt, read_count_sem, ballots>>

\* reader_process: the loop goes on with a read section
ReaderProcessFor(p) ==
    /\ p \in OSReaderProcs
    /\ At(p, "idle")
    /\ proc[p].iterations < Rounds(p)
    /\ Move(p, "reader_enter")
    /\ UNCHANGED <<voting_data, wrt, read_count_sem, ballots>>

\* writer_process: the loop goes on with voter_id = rand() % 1000 + 1
WriterProcessFor(p, voter_id, candidate) ==
    /\ p \in OSWriterProcs
    /\ At(p, "idle")
    /\ proc[p].iterations < Rounds(p)
    /\ proc' = [proc EXCEPT ![p] = [@ EXCEPT !.pc = "writer_enter",
                                             !.voter_id = voter_id,
                                             !.candidate_id = candidate]]
    /\ UNCHANGED <<voting_data, wrt, read_count_sem, ballots>>

\* The loop is over: the thread returns, the process exits.
WorkerEnds(p) ==
    /\ p \in Joinable
    /\ At(p, "idle")
    /\ proc[p].iterations >= Rounds(p)
    /\ Move(p, "done")
    /\ UNCHANGED <<voting_data, wrt, read_count_sem, ballots>>

\* pthread_join / waitpid of every worker has returned; thread_mode and
\* process_mode go on to view_results().
MainJoins ==
    /\ At("main", "join")
    /\ \A p \in Joinable : At(p, "done")
    /\ Move("main", IF Mode \in VotingSystemModes THEN "reader_enter" ELSE "done")
    /\ UNCHANGED <<voting_data, wrt, read_count_sem, ballots>>

\* The final view_results() of thread_mode and process_mode has returned.
MainReturns ==
    /\ At("main", "returned")
    /\ Move("main", "done")
    /\ UNCHANGED <<voting_data, wrt, read_count_sem, ballots>>

SimStep(p) ==
    \/ \E c \in 0..(NumCandidates - 1) : VoterCasts(p, c)
    \/ ObserverViews(p)
    \/ ReaderProcessFor(p)
    \/ \E id \in VoterIds, c \in 0..(NumCandidates - 1) : WriterProcessFor(p, id, c)
    \/ PassCounted(p)
    \/ WorkerEnds(p)
    \/ p = "main" /\ (MainJoins \/ MainReturns)
    \/ Mode \in VotingSystemModes /\ VoteStep(p)
    \/ Mode \notin VotingSystemModes /\ p # "main" /\ OSStep(p)
    \/ p \in OSReaders /\ (OSReaderLoop(p) \/ OSPassEnds(p))

SimRun(p) ==
    /\ p \in DOMAIN proc
    /\ SimStep(p)
    /\ UNCHANGED <<klogvars, rwsem_wait, module>>

SimNext == \E p \in AllSimWorkers : SimRun(p)

\* Every thread and every process goes on running: a worker whose next step
\* is possible again and again takes it.
SimSpec ==
    /\ SimInit
    /\ [][SimNext]_vars
    /\ \A p \in AllSimWorkers : SF_vars(SimRun(p))

\* main has joined its workers and, in thread_mode and process_mode, shown
\* the final results.
SimOver ==
    /\ At("main", "done")
    /\ \A p \in Joinable : At(p, "done")

\* C28: the bounded simulations terminate.  Under fair scheduling every
\* observer thread ends after exactly 10 calls of view_results, every observer
\* process and every reader process of OS_Project.c after exactly 5 read
\* sections, every writer process of OS_Project.c after exactly 3 write
\* sections and every voter after one cast_vote; main joins them all, and
\* thread_mode and process_mode end with wrt and read_count_sem released.
C28_SimulationsTerminate ==
    /\ [](\A p \in Joinable : At(p, "done") => proc[p].iterations = Rounds(p))
    /\ <>[]SimOver
    /\ [](SimOver /\ Mode \in VotingSystemModes
            => wrt = 1 /\ read_count_sem = 1 /\ voting_data.reader_count = 0)

-----------------------------------------------------------------------------
(* The accesses to klog_buffer and to the temporary buffer of              *)
(* klog_proc_show: every copy as [at |-> first index in klog_buffer,       *)
(* k |-> number of bytes, to |-> first index in the other buffer].         *)

\* The copy_from_user calls of klog_write for a write of n bytes at head.
WriteCopies(head, n) ==
    IF WriteWraps(head, n)
    THEN LET contiguous_bytes == Capacity - head
         IN  <<[at |-> head, k |-> contiguous_bytes, to |-> 0],
               [at |-> 0, k |-> n - contiguous_bytes, to |-> contiguous_bytes]>>
    ELSE <<[at |-> head, k |-> n, to |-> 0]>>

\* The copy_to_user calls of klog_read for a read of n bytes at read_pos.
ReadCopies(read_pos, n) ==
    IF read_pos + n > Capacity
    THEN LET contiguous_bytes == Capacity - read_pos
         IN  <<[at |-> read_pos, k |-> contiguous_bytes, to |-> 0],
               [at |-> 0, k |-> n - contiguous_bytes, to |-> contiguous_bytes]>>
    ELSE <<[at |-> read_pos, k |-> n, to |-> 0]>>

\* The memcpy calls of klog_proc_show into temp_buffer.
ShowCopies(head, avail) ==
    IF head >= avail
    THEN <<[at |-> head - avail, k |-> avail, to |-> 0]>>
    ELSE LET first_part == Capacity - (avail - head)
         IN  <<[at |-> first_part, k |-> avail - head, to |-> 0],
               [at |-> 0, k |-> head, to |-> avail - head]>>

\* The copies thread t makes with its next step.
PendingCopies(t) ==
    LET c == call[t]
        Elems(s) == {s[i] : i \in DOMAIN s}
    IN  CASE pc[t] = "w_copy"  -> {WriteCopies(buffer_head, c.n)[1]}
          [] pc[t] = "w_copy2" -> {WriteCopies(buffer_head, c.n)[2]}
          [] pc[t] = "r_copy"  -> {ReadCopies(c.pos, c.n)[1]}
          [] pc[t] = "r_copy2" -> {ReadCopies(c.pos, c.n)[2]}
          [] pc[t] = "d_copy"  -> Elems(ShowCopies(buffer_head, buffer_available))
          [] OTHER             -> {}

\* A copy stays inside klog_buffer.
InStorage(cp) == cp.at >= 0 /\ cp.at < Capacity /\ cp.k >= 0 /\ cp.at + cp.k <= Capacity

\* C31: every copy klog_write, klog_read and klog_proc_show make starts at an
\* index of klog_buffer in [0, Capacity) and ends at or before Capacity,
\* whatever head, available, length and offset; the copies of klog_proc_show
\* fill indices below available of the temporary buffer of available + 1
\* bytes, whose terminator goes to index available; and the position a read
\* has computed is an index of klog_buffer.
C31_CopiesInBounds ==
    \A t \in Threads :
       /\ \A cp \in PendingCopies(t) : InStorage(cp)
       /\ pc[t] \in {"r_copy", "r_copy2"} => call[t].pos \in 0..(Capacity - 1)
       /\ pc[t] = "d_copy" =>
             \A cp \in PendingCopies(t) :
                cp.to >= 0 /\ cp.to + cp.k <= buffer_available
       /\ pc[t] = "d_up" /\ call[t].ret = 0 =>
             /\ Len(call[t].temp) = buffer_available + 1
             /\ call[t].temp[buffer_available + 1] = NUL

\* A wrapped read is about to make its second copy, of at least one byte.
C31_Witness ==
    /\ pc[Caller] = "r_copy2"
    /\ \E cp \in PendingCopies(Caller) : cp.k > 0 /\ cp.to > 0

-----------------------------------------------------------------------------
(* Rejected votes.                                                         *)

\* What cast_vote may change of the segment.
Tally(d) == <<d.votes, d.total_votes, d.voted_ids, d.voted_count>>

\* cast_vote(voter_id, candidate_id) of worker p is one that the checks refuse.
Refused(p) ==
    \/ HasVoted(voting_data, proc[p].voter_id)
    \/ ~ValidCandidate(voting_data, proc[p].candidate_id)

\* C32: a cast_vote that is rejected (voter ID already recorded, or candidate
\* ID outside 0..candidate_count-1) leaves votes[], total_votes, voted_ids and
\* voted_count unchanged and releases wrt before it returns: from the checks
\* to the return no step changes the four fields, the refused call goes to
\* writer_exit, writer_exit posts wrt and only then the call returns; and
\* once no worker is inside cast_vote or view_results, wrt is free again.
C32_RejectedVoteLeavesTally ==
    /\ [][\A p \in Voters :
            /\ At(p, "scan") /\ Refused(p) =>
                  /\ Tally(voting_data') = Tally(voting_data)
                  /\ proc'[p].pc \in {"scan", "writer_exit"}
                  /\ wrt = 0 /\ wrt' = 0
            /\ At(p, "writer_exit") =>
                  /\ Tally(voting_data') = Tally(voting_data)
                  /\ wrt = 0
                  /\ proc'[p].pc \in {"writer_exit", "returned"}
                  /\ proc'[p].pc = "returned" => wrt' = 1]_vars
    /\ []((\A p \in Workers : proc[p].pc \in {"idle", "returned", "writer_enter", "reader_enter"})
             => wrt = 1)

\* Two calls of cast_vote with the same voter ID and a valid candidate have
\* returned: one vote is counted, the other call was refused, and wrt is free.
C32_Witness ==
    /\ At("v1", "returned") /\ At("v2", "returned")
    /\ proc["v1"].voter_id = proc["v2"].voter_id
    /\ ValidCandidate(voting_data, proc["v1"].candidate_id)
    /\ ValidCandidate(voting_data, proc["v2"].candidate_id)
    /\ voting_data.total_votes = 1
    /\ wrt = 1

-----------------------------------------------------------------------------
(* The tally.                                                              *)

\* votes[0] + ... + votes[n - 1]
RECURSIVE SumVotes(_, _)
SumVotes(votes, n) == IF n = 0 THEN 0 ELSE votes[n - 1] + SumVotes(votes, n - 1)

\* C33: no vote is lost under concurrency.  In thread_mode and process_mode
\* the voters carry pairwise distinct IDs (at most MAX_VOTERS of them) and
\* valid candidate IDs and run cast_vote concurrently with the observers: once
\* all of them have finished, total_votes, voted_count and the sum of votes[]
\* all equal the number of voters.
C33_NoVoteLost ==
    (Mode \in VotingSystemModes /\ \A p \in Voters : At(p, "done")) =>
        /\ voting_data.total_votes = Cardinality(Voters)
        /\ voting_data.voted_count = Cardinality(Voters)
        /\ SumVotes(voting_data.votes, voting_data.candidate_count) = Cardinality(Voters)

\* Both voters have finished while an observer is still inside view_results,
\* and the second vote was counted from values read after the first was stored.
C33_Witness ==
    /\ Mode \in VotingSystemModes
    /\ \A p \in Voters : At(p, "done")
    /\ At("o1", "reading")
    /\ voting_data.total_votes = Cardinality(Voters)
    /\ Cardinality(Voters) <= MAX_VOTERS

\* The recorded voter IDs, ids[0 .. n - 1], are pairwise distinct.
Distinct(ids, n) == \A i, j \in 0..(n - 1) : i # j => ids[i] # ids[j]

\* C34: tally consistency.  In voting_system, whenever no voter is inside
\* the write section, total_votes equals the sum of votes[0..candidate_count-1]
\* and equals voted_count, and the recorded voter IDs are pairwise distinct; in
\* OS_Project the sum of votes[] equals voter_count.
C34_TallyConsistent ==
    InWriteSection = {} =>
        IF DOMAIN proc = Workers
        THEN /\ voting_data.total_votes
                  = SumVotes(voting_data.votes, voting_data.candidate_count)
             /\ voting_data.total_votes = voting_data.voted_count
             /\ Distinct(voting_data.voted_ids, voting_data.voted_count)
        ELSE SumVotes(voting_data.votes, voting_data.candidate_count)
                  = voting_data.voter_count

-----------------------------------------------------------------------------
(* console_sem: the variant of voting_system with a semaphore around every *)
(* printf.  It is created with value 1 and every sem_wait on it is followed *)
(* by its sem_post, so its value is 1 unless a worker is between the two.  *)
(* proc[p].console tells where worker p is with the message of the call it *)
(* is in: "none", "want" (about to sem_wait outside cast_vote and           *)
(* view_results), "held" (between sem_wait and sem_post) or "done".         *)

\* The value of console_sem.
console_sem == IF \E q \in DOMAIN proc : proc[q].console = "held" THEN 0 ELSE 1

\* cast_vote prints its message before writer_exit, view_results its table
\* before reader_exit.
PrintsHere(p) == At(p, "reading") \/ At(p, "writer_exit")

\* voter_thread, observer_thread and the processes announce what they do
\* outside cast_vote and view_results: about to sem_wait(console_sem).
ConsoleAlone(p) ==
    /\ At(p, "idle")
    /\ proc[p].console = "none"
    /\ proc' = [proc EXCEPT ![p].console = "want"]
    /\ UNCHANGED <<voting_data, wrt, read_count_sem, ballots>>

\* sem_wait(console_sem)
ConsoleWait(p) ==
    /\ \/ proc[p].console = "want"
       \/ PrintsHere(p) /\ proc[p].console = "none"
    /\ console_sem > 0
    /\ proc' = [proc EXCEPT ![p].console = "held"]
    /\ UNCHANGED <<voting_data, wrt, read_count_sem, ballots>>

\* printf; sem_post(console_sem)
ConsolePost(p) ==
    /\ proc[p].console = "held"
    /\ proc' = [proc EXCEPT ![p].console = IF At(p, "idle") THEN "none" ELSE "done"]
    /\ UNCHANGED <<voting_data, wrt, read_count_sem, ballots>>

\* A step of cast_vote or view_results; the one after the message waits for it.
ConsoleStep(p) ==
    \/ ConsoleAlone(p)
    \/ ConsoleWait(p)
    \/ ConsolePost(p)
    \/ /\ proc[p].console \in {"none", "done"}
       /\ PrintsHere(p) => proc[p].console = "done"
       /\ VoteCall(p) \/ VoteStep(p)

ConsoleNext ==
    /\ \E p \in Workers : ConsoleStep(p)
    /\ UNCHANGED <<klogvars, rwsem_wait, module>>

\* Voters and observers of the variant with console_sem.
ConsoleSpec == VoteInit /\ [][ConsoleNext]_vars

\* Worker p is inside sem_wait on a semaphore whose value is 0.
Blocked(p) ==
    \/ At(p, "writer_enter") /\ wrt = 0
    \/ At(p, "first_reader") /\ wrt = 0
    \/ (At(p, "reader_enter") \/ At(p, "reader_exit")) /\ read_count_sem = 0
    \/ /\ proc[p].console = "want" \/ (PrintsHere(p) /\ proc[p].console = "none")
       /\ console_sem = 0

\* The workers that have something left to do: those inside cast_vote or
\* view_results and those at a message of their own.
Unfinished ==
    {p \in Workers : ~At(p, "idle") \/ proc[p].console # "none"}

\* C35: the voting programs are deadlock-free.  With wrt, read_count_sem and
\* console_sem taken in the orders read_count_sem then wrt, wrt then
\* console_sem, and console_sem alone, no reachable state has every unfinished
\* voter and observer blocked on a semaphore; console_sem is only ever taken
\* last, and wrt is never awaited by a worker that holds console_sem.
C35_DeadlockFree ==
    /\ Unfinished # {} => \E p \in Unfinished : ~Blocked(p)
    /\ \A p \in Workers :
          proc[p].console = "held" =>
              proc[p].pc \in {"idle", "reading", "writer_exit"}

\* Every worker is unfinished and all but one are blocked: a voter prints
\* inside the write section while the other voter waits for wrt, the first
\* observer waits for wrt holding read_count_sem and the second observer waits
\* for read_count_sem.
C35_Witness ==
    /\ Unfinished = Workers
    /\ Cardinality({p \in Workers : Blocked(p)}) = Cardinality(Workers) - 1
    /\ \E p \in Voters : At(p, "writer_exit") /\ proc[p].console = "held"
    /\ \E p \in Observers : At(p, "first_reader")

-----------------------------------------------------------------------------
(* OS_Project.c: the menu of main, its arrays threads[20] and               *)
(* child_pids[10] and the counters thread_count and process_count.         *)
(* A write past the end of an array is undefined behaviour: the model      *)
(* follows main up to that write and no further.                           *)

\* pthread_t threads[20]
ThreadSlots == 20

\* pid_t child_pids[10]
ProcessSlots == 10

\* num_readers and num_writers of a thread simulation are in 1..10 (an
\* input outside is replaced by 3 or 2).
MaxThreadsAsked == 10

\* num_readers and num_writers of a process simulation are in 1..5 (an
\* input outside is replaced by 2).
MaxProcessesAsked == 5

\* main at display_menu() for the first time.
MenuMain ==
    [pc |-> "menu", thread_count |-> 0, process_count |-> 0,
     num_readers |-> 0, num_writers |-> 0, i |-> 0]

MenuInit ==
    /\ KlogIdle
    /\ voting_data = FreshOSData
    /\ wrt = 1
    /\ read_count_sem = 1
    /\ proc = [p \in {"main"} |-> MenuMain]
    /\ ballots = NoBallots

\* No array of main has been written past its end.
InArrays ==
    /\ proc["main"].thread_count <= ThreadSlots
    /\ proc["main"].process_count <= ProcessSlots

\* case 3 and case 4: the numbers of readers and writers are read.
StartSimulation(label, num_readers, num_writers) ==
    /\ At("main", "menu")
    /\ proc' = [proc EXCEPT !["main"] = [@ EXCEPT !.pc = label, !.i = 0,
                                                  !.num_readers = num_readers,
                                                  !.num_writers = num_writers]]

\* One pass of a creation loop is over, or the loop is: the loop of the
\* writers follows the loop of the readers.
LoopGoesOn(of, then) ==
    LET m == proc["main"]
        n == IF of \in {"create_readers", "fork_readers"} THEN m.num_readers
             ELSE m.num_writers
    IN  IF m.i + 1 < n THEN [pc |-> of, i |-> m.i + 1] ELSE [pc |-> then, i |-> 0]

\* pthread_create(&threads[thread_count++], ...): the counter moves whether
\* the thread is created or not.
CreateThread(of, then) ==
    /\ At("main", of)
    /\ InArrays
    /\ proc' = [proc EXCEPT !["main"] =
                   [@ EXCEPT !.thread_count = @ + 1,
                             !.pc = LoopGoesOn(of, then).pc,
                             !.i = LoopGoesOn(of, then).i]]

\* fork(); in the parent child_pids[process_count++] = pid, unless fork failed.
ForkChild(of, then, forked) ==
    /\ At("main", of)
    /\ InArrays
    /\ proc' = [proc EXCEPT !["main"] =
                   [@ EXCEPT !.process_count = IF forked THEN @ + 1 ELSE @,
                             !.pc = LoopGoesOn(of, then).pc,
                             !.i = LoopGoesOn(of, then).i]]

\* The waitpid loop has returned; process_count = 0.
WaitChildren ==
    /\ At("main", "wait")
    /\ proc' = [proc EXCEPT !["main"] = [@ EXCEPT !.process_count = 0, !.pc = "menu"]]

\* case 5: running = 0, the threads are joined, main returns.
ExitProgram ==
    /\ At("main", "menu")
    /\ voting_data' = [voting_data EXCEPT !.running = 0]
    /\ proc' = [proc EXCEPT !["main"].pc = "exited"]
    /\ UNCHANGED <<wrt, read_count_sem, ballots>>

MenuNext ==
    /\ \/ /\ \/ \E r, w \in 1..MaxThreadsAsked : StartSimulation("create_readers", r, w)
             \/ \E r, w \in 1..MaxProcessesAsked : StartSimulation("fork_readers", r, w)
             \/ CreateThread("create_readers", "create_writers")
             \/ CreateThread("create_writers", "menu")
             \/ \E forked \in BOOLEAN : ForkChild("fork_readers", "fork_writers", forked)
             \/ \E forked \in BOOLEAN : ForkChild("fork_writers", "wait", forked)
             \/ WaitChildren
          /\ UNCHANGED <<voting_data, wrt, read_count_sem, ballots>>
       \/ ExitProgram
    /\ UNCHANGED <<klogvars, rwsem_wait, module>>

\* main of OS_Project.c, any sequence of menu choices.
MenuSpec == MenuInit /\ [][MenuNext]_vars

\* C36: in main of OS_Project.c, after any sequence of menu choices (the
\* thread simulation chosen several times included), thread_count never
\* exceeds 20 and process_count never exceeds 10, so that every write to
\* threads[] and child_pids[] is within the array.
C36_CountersWithinArrays ==
    /\ proc["main"].thread_count <= ThreadSlots
    /\ proc["main"].process_count <= ProcessSlots

-----------------------------------------------------------------------------
\* C37: klog_read changes the caller's file offset only by adding the number
\* of bytes it returns: after a read that returned k >= 0 bytes the offset has
\* grown by exactly k (by nothing at EOF), after -EFAULT it is unchanged, and
\* the read returns nothing else.
C37_OffsetGrowsByReturn ==
    \A t \in Threads :
       (pc[t] = "done" /\ call[t].op = "read") =>
           /\ call[t].ret >= 0 \/ call[t].ret = -EFAULT
           /\ call[t].ret >= 0 => call[t].off = call[t].off0 + call[t].ret
           /\ call[t].ret = -EFAULT => call[t].off = call[t].off0
           /\ call[t].ret = Len(call[t].out) \/ call[t].ret = -EFAULT

\* A read at a position past the start of the window has returned two bytes
\* or more and moved the offset by as many.
C37_Witness ==
    /\ pc[Caller] = "done"
    /\ call[Caller].op = "read"
    /\ call[Caller].off0 >= 1
    /\ call[Caller].ret >= 2
    /\ call[Caller].off = call[Caller].off0 + call[Caller].ret

=============================================================================
